---------------------------- MODULE Spec2Model ----------------------------
(***************************************************************************)
(* Model of the labeled binary-corpus generation pipeline of crypto-finder *)
(* (dataset_builder): LibraryManager, CrossCompiler, DatasetCompiler and   *)
(* AutoLabeler.                                                            *)
(*                                                                         *)
(* Strings are sequences of one-character strings, so that str.split,      *)
(* str.replace, str.lower, Path.stem and f-string concatenation are        *)
(* computed character by character.                                        *)
(***************************************************************************)
EXTENDS Integers, Sequences, FiniteSets, TLC

VARIABLES
    \* ---- AutoLabeler.label_function applied to a compiled binary
    labelCell,      \* the matrix cell whose binary is labelled
    labelPath,      \* the binary_path handed to label_function
    labelOut,       \* the function_info returned, "label" field filled
    \* ---- CrossCompiler.compile_file called directly
    cfAvail,        \* self.available_archs of the compiler under test
    cfCall,         \* arguments and outcome of the last compile_file call
    \* ---- CrossCompiler.compile_library / DatasetCompiler.compile_all
    pc,             \* position of the run
    config,         \* config['crypto_libraries']
    libIdx,         \* index of the library being processed by compile_all
    available_archs,\* self.available_archs
    library_name, source_dir, functions, output_dir, \* compile_library args
    cellIdx,        \* index of the next matrix cell (arch, opt, func loops)
    results,        \* compile_library's results dict: key -> unit
    all_results,    \* compile_all's all_results dict: lib_name -> results
    pbar,           \* tqdm counter of the running compile_library
    attempted,      \* cells whose loop body ran, in order
    faults,         \* compiler invocations that did not succeed normally
    disk,           \* output binaries on disk: path -> content
    acquired,       \* the libIdx values for which get_library was called
    metadata,       \* compilation_metadata.json (NoFile until written)
    \* ---- LibraryManager: the source cache under sources_dir
    trees,          \* directories: name -> source tree (file -> content)
    archives,       \* regular files: filename -> downloaded payload
    downloads,      \* number of requests.get calls so far
    lmCalls,        \* history of direct get_library calls
    \* ---- get_library called by concurrent callers
    callers,        \* per caller: its arguments, position and outcome
    \* ---- FunctionExtractor
    readelf_available, \* self.readelf_available
    exCall,         \* environment and outcome of the extract_all call
    \* ---- AutoLabeler._detect_algorithm called directly
    detectCall,     \* argument and result of the call
    \* ---- AutoLabeler.label_batch
    heap,           \* the dict objects: reference -> dict
    batchCall,      \* arguments and result of the label_batch call
    \* ---- AutoLabeler.label_function called repeatedly on one labeler
    labelerMeta,    \* self.metadata of the labeler
    lblCalls,       \* history of the label_function calls
    \* ---- CrossCompiler construction
    whichPath,      \* the compiler binaries shutil.which finds now
    ctorCall,       \* outcome of CrossCompiler()
    \* ---- CrossCompiler._find_source_file called directly
    findCall,       \* arguments and result of the call
    \* ---- file names and metadata keys of two cells of one run
    encCall         \* the two cells and their encodings

labelVars  == <<labelCell, labelPath, labelOut>>
fileVars   == <<cfAvail, cfCall>>
buildVars  == <<pc, config, libIdx, available_archs, library_name, source_dir,
                functions, output_dir, cellIdx, results, all_results, pbar,
                attempted, faults, disk, acquired, metadata>>
cacheVars  == <<trees, archives, downloads>>
pureVars   == <<labelerMeta, lblCalls>>
regVars    == <<whichPath, ctorCall>>
moreVars   == <<pureVars, regVars, findCall, encCall>>
auxVars    == <<callers, readelf_available, exCall, detectCall, heap,
                batchCall, moreVars>>
vars       == <<labelVars, fileVars, buildVars, cacheVars, lmCalls, auxVars>>

-----------------------------------------------------------------------------
(* Strings                                                                 *)

UpperCase == <<"A","B","C","D","E","F","G","H","I","J","K","L","M",
               "N","O","P","Q","R","S","T","U","V","W","X","Y","Z">>
LowerCase == <<"a","b","c","d","e","f","g","h","i","j","k","l","m",
               "n","o","p","q","r","s","t","u","v","w","x","y","z">>

\* str.lower() on one character
LowerChar(c) ==
    IF \E i \in 1..26 : UpperCase[i] = c
    THEN LowerCase[CHOOSE i \in 1..26 : UpperCase[i] = c]
    ELSE c

\* str.lower()
Lower(s) == [i \in 1..Len(s) |-> LowerChar(s[i])]

\* str.replace(ch, '')
RECURSIVE Remove(_, _)
Remove(s, ch) ==
    IF s = <<>> THEN <<>>
    ELSE IF Head(s) = ch THEN Remove(Tail(s), ch)
         ELSE <<Head(s)>> \o Remove(Tail(s), ch)

\* sub in s
Contains(s, sub) ==
    \E i \in 1..(Len(s) - Len(sub) + 1) : SubSeq(s, i, i + Len(sub) - 1) = sub

\* str.split(sep) for a one-character separator: the list of fields
RECURSIVE SplitAcc(_, _, _)
SplitAcc(s, sep, acc) ==
    IF s = <<>> THEN acc
    ELSE IF Head(s) = sep
         THEN SplitAcc(Tail(s), sep, Append(acc, <<>>))
         ELSE SplitAcc(Tail(s), sep,
                       [acc EXCEPT ![Len(acc)] = Append(acc[Len(acc)], Head(s))])

Split(s, sep) == SplitAcc(s, sep, << <<>> >>)

\* Path(p).stem on the final path component: the name without its last suffix
Stem(name) ==
    LET dots == {i \in 2..Len(name) : name[i] = "."}
    IN  IF dots = {} \/ name[Len(name)] = "." THEN name
        ELSE SubSeq(name, 1, (CHOOSE i \in dots : \A j \in dots : j <= i) - 1)

\* the elements of a sequence
Range(s) == {s[i] : i \in 1..Len(s)}

-----------------------------------------------------------------------------
(* Static catalogs                                                         *)

\* CrossCompiler.ARCHITECTURES, in declaration order (dict iteration order)
ARCHITECTURES ==
    << [id |-> <<"x","8","6">>, cc |-> "gcc",
        cflags |-> <<"-","m","3","2">>, triplet |-> "i686-linux-gnu"],
       [id |-> <<"x","8","6","-","6","4">>, cc |-> "gcc",
        cflags |-> <<"-","m","6","4">>, triplet |-> "x86_64-linux-gnu"],
       [id |-> <<"a","r","m">>, cc |-> "arm-linux-gnueabi-gcc",
        cflags |-> <<>>, triplet |-> "arm-linux-gnueabi"],
       [id |-> <<"a","a","r","c","h","6","4">>, cc |-> "aarch64-linux-gnu-gcc",
        cflags |-> <<>>, triplet |-> "aarch64-linux-gnu"],
       [id |-> <<"m","i","p","s">>, cc |-> "mips-linux-gnu-gcc",
        cflags |-> <<>>, triplet |-> "mips-linux-gnu"],
       [id |-> <<"r","i","s","c","v">>, cc |-> "riscv64-linux-gnu-gcc",
        cflags |-> <<>>, triplet |-> "riscv64-linux-gnu"] >>

ArchIds == [i \in 1..Len(ARCHITECTURES) |-> ARCHITECTURES[i].id]

\* self.ARCHITECTURES[architecture]
ArchConfig(arch) ==
    ARCHITECTURES[CHOOSE i \in 1..Len(ARCHITECTURES) : ARCHITECTURES[i].id = arch]

X86    == <<"x","8","6">>
X86_64 == <<"x","8","6","-","6","4">>
ARM    == <<"a","r","m">>

\* CrossCompiler.OPTIMIZATION_LEVELS
OPTIMIZATION_LEVELS ==
    << <<"-","O","0">>, <<"-","O","1">>, <<"-","O","2">>,
       <<"-","O","3">>, <<"-","O","s">> >>

OPENSSL   == <<"o","p","e","n","s","s","l">>
MBEDTLS   == <<"m","b","e","d","t","l","s">>
LIBSODIUM == <<"l","i","b","s","o","d","i","u","m">>

AES_encrypt == <<"A","E","S","_","e","n","c","r","y","p","t">>
HMAC        == <<"H","M","A","C">>

OpensslFunctions ==
    << AES_encrypt,
       <<"A","E","S","_","d","e","c","r","y","p","t">>,
       <<"A","E","S","_","s","e","t","_","e","n","c","r","y","p","t","_","k","e","y">>,
       <<"R","S","A","_","p","u","b","l","i","c","_","e","n","c","r","y","p","t">>,
       <<"R","S","A","_","p","r","i","v","a","t","e","_","d","e","c","r","y","p","t">>,
       <<"S","H","A","2","5","6","_","I","n","i","t">>,
       <<"S","H","A","2","5","6","_","U","p","d","a","t","e">>,
       <<"S","H","A","2","5","6","_","F","i","n","a","l">>,
       <<"S","H","A","1","_","I","n","i","t">>,
       <<"S","H","A","1","_","U","p","d","a","t","e">>,
       <<"S","H","A","1","_","F","i","n","a","l">>,
       <<"M","D","5","_","I","n","i","t">>,
       <<"M","D","5","_","U","p","d","a","t","e">>,
       <<"M","D","5","_","F","i","n","a","l">>,
       <<"D","E","S","_","e","n","c","r","y","p","t","1">>,
       <<"D","E","S","_","d","e","c","r","y","p","t","1">>,
       HMAC,
       <<"H","M","A","C","_","I","n","i","t">>,
       <<"H","M","A","C","_","U","p","d","a","t","e">>,
       <<"H","M","A","C","_","F","i","n","a","l">> >>

MbedtlsFunctions ==
    << <<"m","b","e","d","t","l","s","_","a","e","s","_","e","n","c","r","y","p","t">>,
       <<"m","b","e","d","t","l","s","_","a","e","s","_","d","e","c","r","y","p","t">>,
       <<"m","b","e","d","t","l","s","_","r","s","a","_","p","u","b","l","i","c">>,
       <<"m","b","e","d","t","l","s","_","r","s","a","_","p","r","i","v","a","t","e">>,
       <<"m","b","e","d","t","l","s","_","s","h","a","2","5","6">>,
       <<"m","b","e","d","t","l","s","_","s","h","a","1">>,
       <<"m","b","e","d","t","l","s","_","m","d","5">>,
       <<"m","b","e","d","t","l","s","_","d","e","s","_","c","r","y","p","t","_","e","c","b">>,
       <<"m","b","e","d","t","l","s","_","d","e","s","3","_","c","r","y","p","t","_","e","c","b">> >>

LibsodiumFunctions ==
    << <<"c","r","y","p","t","o","_","s","e","c","r","e","t","b","o","x","_","e","a","s","y">>,
       <<"c","r","y","p","t","o","_","s","e","c","r","e","t","b","o","x","_","o","p","e","n","_","e","a","s","y">>,
       <<"c","r","y","p","t","o","_","b","o","x","_","e","a","s","y">>,
       <<"c","r","y","p","t","o","_","b","o","x","_","o","p","e","n","_","e","a","s","y">>,
       <<"c","r","y","p","t","o","_","s","i","g","n">>,
       <<"c","r","y","p","t","o","_","s","i","g","n","_","o","p","e","n">>,
       <<"c","r","y","p","t","o","_","h","a","s","h","_","s","h","a","2","5","6">>,
       <<"c","r","y","p","t","o","_","h","a","s","h","_","s","h","a","5","1","2">> >>

\* DatasetCompiler._get_crypto_functions: function_map.get(library, [])
GetCryptoFunctions(library) ==
    IF library = OPENSSL THEN OpensslFunctions
    ELSE IF library = MBEDTLS THEN MbedtlsFunctions
    ELSE IF library = LIBSODIUM THEN LibsodiumFunctions
    ELSE <<>>

\* AutoLabeler.ALGORITHM_MAP, in declaration order (dict iteration order)
ALGORITHM_MAP ==
    << [key |-> <<"a","e","s">>, value |-> "AES"],
       [key |-> <<"d","e","s">>, value |-> "DES"],
       [key |-> <<"3","d","e","s">>, value |-> "3DES"],
       [key |-> <<"c","h","a","c","h","a">>, value |-> "ChaCha20"],
       [key |-> <<"b","l","o","w","f","i","s","h">>, value |-> "Blowfish"],
       [key |-> <<"t","w","o","f","i","s","h">>, value |-> "Twofish"],
       [key |-> <<"r","s","a">>, value |-> "RSA"],
       [key |-> <<"d","s","a">>, value |-> "DSA"],
       [key |-> <<"d","h">>, value |-> "DH"],
       [key |-> <<"e","c","d","h">>, value |-> "ECDH"],
       [key |-> <<"e","c","d","s","a">>, value |-> "ECDSA"],
       [key |-> <<"e","c","c">>, value |-> "ECC"],
       [key |-> <<"s","h","a","1">>, value |-> "SHA-1"],
       [key |-> <<"s","h","a","2","2","4">>, value |-> "SHA-224"],
       [key |-> <<"s","h","a","2","5","6">>, value |-> "SHA-256"],
       [key |-> <<"s","h","a","3","8","4">>, value |-> "SHA-384"],
       [key |-> <<"s","h","a","5","1","2">>, value |-> "SHA-512"],
       [key |-> <<"s","h","a","3">>, value |-> "SHA-3"],
       [key |-> <<"m","d","5">>, value |-> "MD5"],
       [key |-> <<"b","l","a","k","e">>, value |-> "BLAKE"],
       [key |-> <<"h","m","a","c">>, value |-> "HMAC"],
       [key |-> <<"c","m","a","c">>, value |-> "CMAC"],
       [key |-> <<"g","m","a","c">>, value |-> "GMAC"],
       [key |-> <<"p","b","k","d","f","2">>, value |-> "PBKDF2"],
       [key |-> <<"h","k","d","f">>, value |-> "HKDF"],
       [key |-> <<"s","c","r","y","p","t">>, value |-> "Scrypt"] >>

-----------------------------------------------------------------------------
(* Paths and output file names                                             *)

\* the final component of a path string (Path(p).name)
PathName(p) == LET parts == Split(p, "/") IN parts[Len(parts)]

\* a cleaning that keeps the letter case
OptClean_keepcase(opt) == Remove(opt, "-")
\* opt.replace('-', '').lower()
OptClean(opt) == Lower(Remove(opt, "-"))

\* f"{library_name}_{func_name}_{arch}_{opt_clean}.bin"
OutputName(lib, func, arch, opt) ==
    lib \o <<"_">> \o func \o <<"_">> \o arch \o <<"_">> \o OptClean(opt)
        \o <<".","b","i","n">>

\* str(output_path / name)
OutputFile(outdir, lib, func, arch, opt) ==
    outdir \o <<"/">> \o OutputName(lib, func, arch, opt)

-----------------------------------------------------------------------------
(* AutoLabeler                                                             *)

\* a detection that lets the last matching keyword win
DetectAlgorithm_last(function_name) ==
    LET func_lower == Lower(function_name)
        hits == {i \in 1..Len(ALGORITHM_MAP) :
                    Contains(func_lower, ALGORITHM_MAP[i].key)}
    IN  IF hits = {} THEN "Unknown"
        ELSE ALGORITHM_MAP[CHOOSE i \in hits : \A j \in hits : i >= j].value
\* AutoLabeler._detect_algorithm: the first catalog keyword, in declaration
\* order, contained in the lower-cased name
DetectAlgorithm(function_name) ==
    LET func_lower == Lower(function_name)
        hits == {i \in 1..Len(ALGORITHM_MAP) :
                    Contains(func_lower, ALGORITHM_MAP[i].key)}
    IN  IF hits = {} THEN "Unknown"
        ELSE ALGORITHM_MAP[CHOOSE i \in hits : \A j \in hits : i <= j].value

\* a label that keeps the library of a short name
LabelOf_library(binary_path) ==
    LET parts == Split(Stem(PathName(binary_path)), "_")
    IN  IF Len(parts) >= 4
        THEN [algorithm     |-> DetectAlgorithm(parts[2]),
              library       |-> parts[1],
              architecture  |-> parts[3],
              optimization  |-> parts[4],
              function_name |-> parts[2],
              is_crypto     |-> TRUE]
        ELSE [algorithm |-> "Unknown", library |-> parts[1], is_crypto |-> FALSE]
\* the label dict built by label_function from the binary's file name
LabelOf(binary_path) ==
    LET binary_name == Stem(PathName(binary_path))
        parts       == Split(binary_name, "_")
    IN  IF Len(parts) >= 4
        THEN [algorithm     |-> DetectAlgorithm(parts[2]),
              library       |-> parts[1],
              architecture  |-> parts[3],
              optimization  |-> parts[4],
              function_name |-> parts[2],
              is_crypto     |-> TRUE]
        ELSE [algorithm |-> "Unknown", is_crypto |-> FALSE]

\* AutoLabeler.label_function: function_info['label'] = ...; return it
label_function(binary_path, function_info) ==
    [k \in DOMAIN function_info \cup {"label"} |->
        IF k = "label" THEN LabelOf(binary_path) ELSE function_info[k]]

-----------------------------------------------------------------------------
(* CrossCompiler: toolchain probe and compile_file                         *)

\* the compiler binaries of the catalog
CompilerBinaries == {ARCHITECTURES[i].cc : i \in 1..Len(ARCHITECTURES)}

\* a probe that reports the whole catalog whatever PATH holds
CheckToolchains_all(onPath) ==
    ArchIds

\* CrossCompiler._check_toolchains: the catalog ids whose cc resolves on PATH
\* (onPath = the binaries shutil.which finds), in catalog order
CheckToolchains(onPath) ==
    LET found == SelectSeq(ARCHITECTURES, LAMBDA a : a.cc \in onPath)
    IN  [i \in 1..Len(found) |-> found[i].id]

\* a compile_file that tests the catalog instead of the available set
ArchAvailable_catalog(avail, architecture) ==
    architecture \in {ARCHITECTURES[i].id : i \in 1..Len(ARCHITECTURES)}

\* compile_file, line 135: architecture in self.available_archs
ArchAvailable(avail, architecture) == architecture \in Range(avail)

Flag_static   == <<"-","s","t","a","t","i","c">>
Flag_nostack  == <<"-","f","n","o","-","s","t","a","c","k","-",
                   "p","r","o","t","e","c","t","o","r">>
Flag_o        == <<"-","o">>
Target_i686   == <<"-","-","t","a","r","g","e","t","=","i","6","8","6","-",
                   "l","i","n","u","x","-","g","n","u">>
Target_x86_64 == <<"-","-","t","a","r","g","e","t","=","x","8","6","_","6","4",
                   "-","l","i","n","u","x","-","g","n","u">>

\* a command that keeps the empty flags
CompileCommand_unfiltered(source_file, output_file, architecture, optimization, compiler, extra_flags) ==
    LET arch_config == ArchConfig(architecture)
        useClang    == compiler = "clang" /\ architecture \in {X86, X86_64}
        cc          == IF useClang THEN "clang" ELSE arch_config.cc
        target_flag == IF useClang
                       THEN IF architecture = X86 THEN Target_i686
                                                  ELSE Target_x86_64
                       ELSE <<>>
    IN  [exe |-> cc,
         args |-> << optimization, arch_config.cflags, target_flag,
                     Flag_static, Flag_nostack, Flag_o, output_file,
                     source_file >> \o extra_flags]

\* compile_file, lines 139-172: cmd = [cc] + flags, empty flags removed
CompileCommand(source_file, output_file, architecture, optimization, compiler, extra_flags) ==
    LET arch_config == ArchConfig(architecture)
        useClang    == compiler = "clang" /\ architecture \in {X86, X86_64}
        cc          == IF useClang THEN "clang" ELSE arch_config.cc
        target_flag == IF useClang
                       THEN IF architecture = X86 THEN Target_i686
                                                  ELSE Target_x86_64
                       ELSE <<>>
        flags       == << optimization, arch_config.cflags, target_flag,
                          Flag_static, Flag_nostack, Flag_o, output_file,
                          source_file >> \o extra_flags
    IN  [exe |-> cc, args |-> SelectSeq(flags, LAMBDA f : f # <<>>)]

\* what one subprocess.run(cmd, timeout=300) can do
RunOutcomes == {"zero", "nonzero", "timeout", "oserror"}

\* a compile_file without the handler for subprocess.TimeoutExpired's
\* siblings: an exception of the invocation escapes
RunResult_unhandled(run) ==
    CASE run = "zero"    -> [ret |-> TRUE,  raised |-> FALSE]
      [] run = "nonzero" -> [ret |-> FALSE, raised |-> FALSE]
      [] run = "timeout" -> [ret |-> FALSE, raised |-> TRUE]
      [] run = "oserror" -> [ret |-> FALSE, raised |-> TRUE]

\* compile_file, lines 174-194: the try block and its two handlers
RunResult(run) ==
    CASE run = "zero"    -> [ret |-> TRUE,  raised |-> FALSE]
      [] run = "nonzero" -> [ret |-> FALSE, raised |-> FALSE]
      [] run = "timeout" -> [ret |-> FALSE, raised |-> FALSE]
      [] run = "oserror" -> [ret |-> FALSE, raised |-> FALSE]

NoCmd == [exe |-> "", args |-> <<>>]

\* CrossCompiler.compile_file; run is what the spawned compiler does
compile_file(avail, source_file, output_file, architecture, optimization, compiler, extra_flags, run) ==
    IF ~ArchAvailable(avail, architecture)
    THEN [ret |-> FALSE, raised |-> FALSE, spawned |-> 0, cmd |-> NoCmd]
    ELSE LET r == RunResult(run)
         IN  [ret |-> r.ret, raised |-> r.raised, spawned |-> 1,
              cmd |-> CompileCommand(source_file, output_file, architecture,
                                     optimization, compiler, extra_flags)]

-----------------------------------------------------------------------------
(* CrossCompiler._find_source_file                                         *)

Ext_c   == <<".","c">>
Ext_cpp == <<".","c","p","p">>

EndsWith(s, suf) ==
    Len(s) >= Len(suf) /\ SubSeq(s, Len(s) - Len(suf) + 1, Len(s)) = suf

\* fnmatch of a file name against f"*{name}*{ext}"
GlobMatch(file, name, ext) ==
    EndsWith(file, ext) /\ Contains(SubSeq(file, 1, Len(file) - Len(ext)), name)

\* the files matched by the k-th pattern of the patterns list; rglob matches
\* the pattern against the final component of a path, at any depth
PatternMatches(files, function_name, k) ==
    CASE k = 1 -> {f \in files : PathName(f) = function_name \o Ext_c}
      [] k = 2 -> {f \in files : PathName(f) = function_name \o Ext_cpp}
      [] k = 3 -> {f \in files : GlobMatch(PathName(f), function_name, Ext_c)}
      [] k = 4 -> {f \in files : GlobMatch(PathName(f), function_name, Ext_cpp)}

NoSource == <<>>

\* a search that returns a match of any pattern, whatever its rank
FindSourceFile_any(files, source_dir_, function_name) ==
    LET all == UNION {PatternMatches(files, function_name, k) : k \in 1..4}
    IN  IF all = {} THEN {NoSource}
        ELSE {source_dir_ \o <<"/">> \o f : f \in all}

\* _find_source_file: the values it can return for the files under the
\* source directory. matches[0] is the first in traversal order, which the
\* file system decides: any match of the first pattern that has one.
FindSourceFile(files, source_dir_, function_name) ==
    LET hit == {k \in 1..4 : PatternMatches(files, function_name, k) # {}}
    IN  IF hit = {} THEN {NoSource}
        ELSE LET k == CHOOSE k \in hit : \A j \in hit : k <= j
             IN  {source_dir_ \o <<"/">> \o f :
                      f \in PatternMatches(files, function_name, k)}

-----------------------------------------------------------------------------
(* LibraryManager                                                          *)

\* the source cache: trees = directories under sources_dir (name -> files),
\* archives = regular files under sources_dir (name -> payload)
EmptyMap == <<>>

\* a map with one more (or one overwritten) entry
Put(map, k, v) == [x \in DOMAIN map \cup {k} |-> IF x = k THEN v ELSE map[x]]

\* a map without one key
Drop(map, k) == [x \in DOMAIN map \ {k} |-> map[x]]

\* get_library, line 49: the identity-derived cache path
LibDir(name, version) ==
    IF version # <<>> THEN name \o <<"-">> \o version ELSE name

\* Path.exists() under sources_dir
PathExists(fs, p) == p \in DOMAIN fs.trees \/ p \in DOMAIN fs.archives

\* _download_file, line 84: url.split('/')[-1]
UrlFilename(url) == LET parts == Split(url, "/") IN parts[Len(parts)]

\* Path.suffix of a file name
Suffix(name) ==
    LET dots == {i \in 2..Len(name) : name[i] = "."}
    IN  IF dots = {} \/ name[Len(name)] = "." THEN <<>>
        ELSE SubSeq(name, CHOOSE i \in dots : \A j \in dots : j <= i, Len(name))

\* Path.suffixes of a file name
RECURSIVE Suffixes(_)
Suffixes(name) ==
    IF Suffix(name) = <<>> THEN <<>>
    ELSE Append(Suffixes(Stem(name)), Suffix(name))

Suffix_gz  == <<".","g","z">>
Suffix_tar == <<".","t","a","r">>
Suffix_zip == <<".","z","i","p">>

\* an extractor choice that takes every name that is not a zip for a tarball
ArchiveKind_lenient(filename) ==
    IF Suffix(filename) = Suffix_zip THEN "zip" ELSE "tgz"
\* _extract_archive, lines 114-123: which extractor the file name selects
ArchiveKind(filename) ==
    IF Suffix(filename) = Suffix_gz \/ Suffixes(filename) = <<Suffix_tar, Suffix_gz>>
    THEN "tgz"
    ELSE IF Suffix(filename) = Suffix_zip THEN "zip"
    ELSE "unsupported"

\* what a download that breaks off in mid-stream leaves in the archive file
Truncated == [format |-> "truncated", top |-> <<>>, files |-> EmptyMap]

\* _download_file: requests.get, then the streamed write to sources_dir.
\* net is what the server does; payload is what it serves.
DownloadFile(fs, url, net, payload) ==
    LET filename == UrlFilename(url)
    IN  IF net = "http_error"
        THEN [fs |-> fs, raised |-> "RequestException", path |-> <<>>]
        ELSE IF filename = <<>> \/ filename \in DOMAIN fs.trees
        THEN [fs |-> fs, raised |-> "IsADirectoryError", path |-> <<>>]
        ELSE IF net = "stream_error"
        THEN [fs |-> [fs EXCEPT !.archives = Put(@, filename, Truncated)],
              raised |-> "RequestException", path |-> <<>>]
        ELSE [fs |-> [fs EXCEPT !.archives = Put(@, filename, payload)],
              raised |-> "none", path |-> filename]

\* tar.extractall / zip_ref.extractall into sources_dir: the members land in
\* the archive's own top-level directory, over whatever is already there
ExtractAll(fs, payload) ==
    LET old == IF payload.top \in DOMAIN fs.trees THEN fs.trees[payload.top]
               ELSE EmptyMap
        new == [f \in DOMAIN old \cup DOMAIN payload.files |->
                   IF f \in DOMAIN payload.files THEN payload.files[f]
                   ELSE old[f]]
    IN  [fs EXCEPT !.trees = Put(@, payload.top, new)]

\* _extract_archive
ExtractArchive(fs, archive_path) ==
    LET payload == fs.archives[archive_path]
        kind    == ArchiveKind(archive_path)
    IN  IF kind = "unsupported"
        THEN [fs |-> fs, raised |-> "ValueError", opened |-> "none"]
        ELSE IF payload.format # kind
        THEN [fs |-> fs, raised |-> "ReadError", opened |-> kind]
        ELSE IF payload.top \in DOMAIN fs.archives
        THEN [fs |-> fs, raised |-> "FileExistsError", opened |-> kind]
        ELSE [fs |-> ExtractAll(fs, payload), raised |-> "none", opened |-> kind]

\* archive_path.unlink(), line 66
UnlinkArchive_kept(fs, archive_path) == fs
UnlinkArchive(fs, archive_path) == [fs EXCEPT !.archives = Drop(@, archive_path)]

\* get_library with a default source: a miss without url makes the directory
get_library_default(fs, name, version, url, net, payload) ==
    IF PathExists(fs, LibDir(name, version)) \/ url # <<>>
    THEN [fs |-> fs, raised |-> "none", ret |-> LibDir(name, version),
          fetched |-> 0, archive |-> <<>>, opened |-> "none"]
    ELSE [fs |-> [fs EXCEPT !.trees = Put(@, LibDir(name, version), EmptyMap)],
          raised |-> "none", ret |-> LibDir(name, version),
          fetched |-> 0, archive |-> <<>>, opened |-> "none"]
\* LibraryManager.get_library
get_library(fs, name, version, url, net, payload) ==
    LET lib_dir == LibDir(name, version)
    IN  IF PathExists(fs, lib_dir)
        THEN [fs |-> fs, raised |-> "none", ret |-> lib_dir, fetched |-> 0,
              archive |-> <<>>, opened |-> "none"]
        ELSE IF url = <<>>
        THEN [fs |-> fs, raised |-> "ValueError", ret |-> <<>>, fetched |-> 0,
              archive |-> <<>>, opened |-> "none"]
        ELSE LET d == DownloadFile(fs, url, net, payload)
             IN  IF d.raised # "none"
                 THEN [fs |-> d.fs, raised |-> d.raised, ret |-> <<>>,
                       fetched |-> 1, archive |-> <<>>, opened |-> "none"]
                 ELSE LET e == ExtractArchive(d.fs, d.path)
                      IN  IF e.raised # "none"
                          THEN [fs |-> e.fs, raised |-> e.raised,
                                ret |-> <<>>, fetched |-> 1,
                                archive |-> d.path, opened |-> e.opened]
                          ELSE [fs |-> UnlinkArchive(e.fs, d.path),
                                raised |-> "none", ret |-> lib_dir,
                                fetched |-> 1,
                                archive |-> d.path, opened |-> e.opened]

-----------------------------------------------------------------------------
(* Bounds and the inputs the model draws from                              *)

MaxLibs   == 2      \* libraries in config['crypto_libraries']
MaxFuncs  == 2      \* length of the functions list given to compile_library
MaxFaults == 1      \* compiler invocations per run that do not write a binary
MaxSrcVer == 2      \* versions of a source file's content
MaxCalls  == 2      \* direct get_library calls in one history

File_AES_c   == <<"A","E","S","_","e","n","c","r","y","p","t",".","c">>
File_HMAC_c  == <<"H","M","A","C",".","c">>
File_my_HMAC == <<"m","y","_","H","M","A","C","_","i","m","p","l",".","c","p","p">>

Dir_src      == <<"s","r","c">>
Dir_out      == <<"o","u","t">>
Dir_upstream == <<"u","p","s","t","r","e","a","m">>
Dir_binaries == <<"b","i","n","a","r","i","e","s">>
ZLIB         == <<"z","l","i","b">>
SPARC        == <<"s","p","a","r","c">>
Version_1    == <<"1">>
Url_tgz      == <<"u","/","a",".","t","a","r",".","g","z">>
Url_zip      == <<"u","/","a",".","z","i","p">>
Url_txt      == <<"u","/","a",".","t","x","t">>
Flag_g       == <<"-","g">>

\* source trees: file name -> content version
SourceTrees ==
    UNION { [fs -> 1..MaxSrcVer] : fs \in SUBSET {File_AES_c, File_HMAC_c, File_my_HMAC} }

\* sequences over S of length lo..hi
SeqsOf(S, lo, hi) == UNION { [1..n -> S] : n \in lo..hi }

-----------------------------------------------------------------------------
(* Binaries on disk                                                        *)

\* the image a compiler writes for a source file, and what a killed
\* compiler leaves behind: a proper prefix of it
BinaryOf(src_content) == <<src_content, src_content>>
PartialOf(src_content) == <<src_content>>

\* output_file.stat().st_size
SizeOf(content) == Len(content)

\* CrossCompiler._compute_md5: the digest of the bytes read from the file
Md5(content) == [md5_of |-> content]

\* what one compiler process does: its exit, and what it leaves at the
\* output path
CompileEnvs ==
    { [run |-> "zero",    out |-> "write"],  [run |-> "zero",    out |-> "keep"],
      [run |-> "nonzero", out |-> "keep"],   [run |-> "nonzero", out |-> "remove"],
      [run |-> "timeout", out |-> "keep"],   [run |-> "timeout", out |-> "remove"],
      [run |-> "timeout", out |-> "partial"],
      [run |-> "oserror", out |-> "keep"] }

NormalEnv(env) == env.run = "zero" /\ env.out = "write"

DiskAfter(d, path, env, src_content) ==
    CASE env.out = "keep"    -> d
      [] env.out = "remove"  -> Drop(d, path)
      [] env.out = "write"   -> Put(d, path, BinaryOf(src_content))
      [] env.out = "partial" -> Put(d, path, PartialOf(src_content))

-----------------------------------------------------------------------------
(* CompilationUnit metadata                                                *)

\* compile_library, lines 257-266: the dict stored for a successful cell
UnitOf(lib, output_file, source_file, arch, opt, func_name, content) ==
    [binary_path  |-> output_file,
     source_path  |-> source_file,
     architecture |-> arch,
     optimization |-> opt,
     function     |-> func_name,
     library      |-> lib,
     size         |-> SizeOf(content),
     md5          |-> Md5(content)]

\* compile_all, line 369: str(self.output_dir / 'binaries' / lib_name)
BinariesDir(lib) == Dir_binaries \o <<"/">> \o lib

-----------------------------------------------------------------------------
(* Quiescent values of each part of the state                              *)

NoInfo == [name |-> <<>>]
NoCall == [kind |-> "none"]
NoFile == [written |-> FALSE]

LabelIdle == labelCell = NoCall /\ labelPath = <<>> /\ labelOut = NoInfo
FileIdle  == cfAvail = <<>> /\ cfCall = NoCall
BuildIdle ==
    /\ pc = "idle" /\ config = <<>> /\ libIdx = 0 /\ available_archs = <<>>
    /\ library_name = <<>> /\ source_dir = <<>> /\ functions = <<>>
    /\ output_dir = <<>> /\ cellIdx = 0 /\ results = EmptyMap
    /\ all_results = EmptyMap /\ pbar = 0 /\ attempted = <<>> /\ faults = 0
    /\ disk = EmptyMap /\ acquired = {} /\ metadata = NoFile
CacheIdle == trees = EmptyMap /\ archives = EmptyMap /\ downloads = 0
CallsIdle == lmCalls = <<>>
RaceIdle  == callers = <<>>
ExtractIdle == readelf_available = FALSE /\ exCall = NoCall
DetectIdle == detectCall = NoCall
BatchIdle == heap = <<>> /\ batchCall = NoCall
PureIdle  == labelerMeta = NoFile /\ lblCalls = <<>>
RegIdle   == whichPath = {} /\ ctorCall = NoCall
MoreIdle  == PureIdle /\ RegIdle /\ findCall = NoCall /\ encCall = NoCall
AuxIdle   == RaceIdle /\ ExtractIdle /\ DetectIdle /\ BatchIdle /\ MoreIdle

-----------------------------------------------------------------------------
(* Labelling the binary of a compiled cell                                 *)

CatalogLibraries == {OPENSSL, MBEDTLS, LIBSODIUM}

\* the units compile_all's matrix can record: every cell of the static
\* catalog, for every architecture and optimization level
CatalogCells ==
    UNION { {l} \X Range(GetCryptoFunctions(l)) \X Range(ArchIds)
                \X Range(OPTIMIZATION_LEVELS) : l \in CatalogLibraries }

CatalogUnits ==
    { UnitOf(c[1], OutputFile(BinariesDir(c[1]), c[1], c[2], c[3], c[4]),
             Dir_src \o <<"/">> \o c[2] \o Ext_c, c[3], c[4], c[2],
             BinaryOf(1)) : c \in CatalogCells }

LabelInit ==
    /\ labelCell \in CatalogUnits
    /\ labelPath = <<>>
    /\ labelOut = NoInfo
    /\ FileIdle /\ BuildIdle /\ CacheIdle /\ CallsIdle /\ AuxIdle

\* label_function(unit's binary_path, an extracted function record)
LabelCompiled ==
    /\ labelOut = NoInfo
    /\ \E addr \in {0, 4096} :
         /\ labelPath' = labelCell.binary_path
         /\ labelOut' = label_function(labelCell.binary_path,
                                       [name |-> labelCell.function,
                                        address |-> addr, size |-> 16])
    /\ UNCHANGED <<labelCell, fileVars, buildVars, cacheVars, lmCalls, auxVars>>

LabelNext == LabelCompiled

SpecLabel == LabelInit /\ [][LabelNext]_vars

\* C1: the label of a compiled cell's binary carries the library,
\* architecture and optimization of the CompilationUnit that produced it
C1_LabelMatchesUnit ==
    labelOut # NoInfo =>
        /\ labelOut.label.library = labelCell.library
        /\ labelOut.label.architecture = labelCell.architecture
        /\ labelOut.label.optimization = labelCell.optimization

-----------------------------------------------------------------------------
(* compile_file called directly                                            *)

FileInit ==
    /\ cfAvail \in { CheckToolchains(onPath) :
                        onPath \in SUBSET CompilerBinaries \ {{}} }
    /\ cfCall = NoCall
    /\ LabelIdle /\ BuildIdle /\ CacheIdle /\ CallsIdle /\ AuxIdle

CompileFileCall ==
    \E arch \in Range(ArchIds) \cup {SPARC},
       opt \in {OPTIMIZATION_LEVELS[1], OPTIMIZATION_LEVELS[5]},
       compiler \in {"gcc", "clang"},
       extra \in {<<>>, <<Flag_g>>, <<<<>>, Flag_g>>},
       run \in RunOutcomes :
        \E r \in {compile_file(cfAvail, Dir_src \o <<"/">> \o File_AES_c,
                                OutputFile(Dir_out, OPENSSL, AES_encrypt, arch, opt),
                                arch, opt, compiler, extra, run)} :
            /\ cfCall' = [kind |-> "compile_file", architecture |-> arch,
                          optimization |-> opt, compiler |-> compiler,
                          extra_flags |-> extra,
                          run |-> IF r.spawned = 0 THEN "none" ELSE run,
                          ret |-> r.ret, raised |-> r.raised,
                          spawned |-> r.spawned, cmd |-> r.cmd]
            /\ UNCHANGED <<cfAvail, labelVars, buildVars, cacheVars, lmCalls, auxVars>>

FileNext == CompileFileCall

SpecFile == FileInit /\ [][FileNext]_vars

IsFileCall == cfCall # NoCall

\* C7: for an architecture outside the available set compile_file returns
\* False, spawns no compiler process and does not raise
C7_UnavailableRejected ==
    (IsFileCall /\ cfCall.architecture \notin Range(cfAvail)) =>
        /\ cfCall.ret = FALSE
        /\ cfCall.spawned = 0
        /\ cfCall.raised = FALSE

C7_Witness ==
    /\ IsFileCall
    /\ cfCall.architecture \in Range(ArchIds)
    /\ cfCall.architecture \notin Range(cfAvail)
    /\ cfCall.ret = FALSE

\* C8: for an available architecture compile_file returns a boolean and
\* never raises; True exactly when the compiler exited with code 0, False on
\* non-zero exit, timeout and any other exception; at most one process
C8_CompileFileTotal ==
    (IsFileCall /\ cfCall.architecture \in Range(cfAvail)) =>
        /\ cfCall.raised = FALSE
        /\ cfCall.ret \in BOOLEAN
        /\ cfCall.ret = (cfCall.run = "zero")
        /\ cfCall.spawned <= 1

C8_Witness ==
    /\ IsFileCall
    /\ cfCall.architecture \in Range(cfAvail)
    /\ cfCall.run = "timeout"
    /\ cfCall.ret = FALSE

-----------------------------------------------------------------------------
(* compile_library (the matrix loop) and compile_all                       *)

\* total_compilations, lines 219-223
NumCells ==
    Len(available_archs) * Len(OPTIMIZATION_LEVELS) * Len(functions)

\* the k-th cell of: for arch ... for opt ... for func_name ...
CellAt(k) ==
    LET nf == Len(functions)
        no == Len(OPTIMIZATION_LEVELS)
    IN  [arch |-> available_archs[((k - 1) \div (no * nf)) + 1],
         opt  |-> OPTIMIZATION_LEVELS[(((k - 1) \div nf) % no) + 1],
         func |-> functions[((k - 1) % nf) + 1]]

\* key = (arch, opt, func_name)
KeyOf(c) == <<c.arch, c.opt, c.func>>

\* the files rglob sees under source_dir (none when it does not exist)
FilesUnder(dir) == IF dir \in DOMAIN trees THEN DOMAIN trees[dir] ELSE {}

\* content of a source file returned by _find_source_file
SourceContent(dir, source_file) == trees[dir][PathName(source_file)]

\* a progress bar that counts every update twice
PbarUpdate_twice(n, k) ==
    n + 2 * k

\* pbar.update(k), lines 236 and 268: the counter of the tqdm bar
PbarUpdate(n, k) ==
    n + k

\* one iteration of the loop body, lines 231-268
CellStep ==
    /\ pc = "matrix"
    /\ cellIdx <= NumCells
    /\ LET c == CellAt(cellIdx)
       IN \E source_file \in FindSourceFile(FilesUnder(source_dir), source_dir, c.func) :
            IF source_file = NoSource
            THEN /\ pbar' = PbarUpdate(pbar, 1)
                 /\ cellIdx' = cellIdx + 1
                 /\ attempted' = Append(attempted,
                                    [cell |-> cellIdx, outcome |-> "skipped"])
                 /\ UNCHANGED <<pc, results, disk, faults>>
            ELSE \E env \in CompileEnvs :
                 LET output_file == OutputFile(output_dir, library_name,
                                               c.func, c.arch, c.opt)
                     r == compile_file(available_archs, source_file,
                                       output_file, c.arch, c.opt, "gcc",
                                       <<>>, env.run)
                     d == IF r.spawned = 0 THEN disk
                          ELSE DiskAfter(disk, output_file, env,
                                         SourceContent(source_dir, source_file))
                 IN  /\ NormalEnv(env) \/ faults < MaxFaults
                     /\ faults' = IF NormalEnv(env) THEN faults ELSE faults + 1
                     /\ disk' = d
                     /\ IF r.ret /\ output_file \notin DOMAIN d
                        THEN \* output_file.stat() raises FileNotFoundError
                             /\ pc' = "raised"
                             /\ attempted' = Append(attempted,
                                    [cell |-> cellIdx, outcome |-> "raised"])
                             /\ UNCHANGED <<results, pbar, cellIdx>>
                        ELSE /\ results' =
                                  IF r.ret
                                  THEN Put(results, KeyOf(c),
                                           UnitOf(library_name, output_file,
                                                  source_file, c.arch, c.opt,
                                                  c.func, d[output_file]))
                                  ELSE results
                             /\ attempted' = Append(attempted,
                                    [cell |-> cellIdx,
                                     outcome |-> IF r.ret THEN "succeeded"
                                                          ELSE "failed"])
                             /\ pbar' = PbarUpdate(pbar, 1)
                             /\ cellIdx' = cellIdx + 1
                             /\ pc' = pc
    /\ UNCHANGED <<config, libIdx, available_archs, library_name, source_dir,
                   functions, output_dir, all_results, acquired, metadata>>
    /\ UNCHANGED <<labelVars, fileVars, cacheVars, lmCalls, auxVars>>

\* compile_library returns its results to a direct caller, line 271
CompileLibraryReturn ==
    /\ pc = "matrix"
    /\ libIdx = 0
    /\ cellIdx > NumCells
    /\ pc' = "returned"
    /\ UNCHANGED <<config, libIdx, available_archs, library_name, source_dir,
                   functions, output_dir, cellIdx, results, all_results, pbar,
                   attempted, faults, disk, acquired, metadata>>
    /\ UNCHANGED <<labelVars, fileVars, cacheVars, lmCalls, auxVars>>

\* what a download in compile_all can serve for a library
PayloadsFor(lib_dir) ==
    { [format |-> "tgz", top |-> t, files |-> fl] :
        t \in {lib_dir, Dir_upstream},
        fl \in { tr \in SourceTrees : DOMAIN tr \in {{}, {File_AES_c}} } }

\* compile_all, lines 348-362: get_library, then _get_crypto_functions and
\* the entry into compile_library (lines 215-225)
AcquireLibrary ==
    /\ pc = "get_library"
    /\ LET lib_config == config[libIdx]
           lib_name   == lib_config.name
       IN \E net \in {"ok", "http_error", "stream_error"},
             payload \in PayloadsFor(LibDir(lib_name, lib_config.version)) :
            LET g == get_library([trees |-> trees, archives |-> archives],
                                 lib_name, lib_config.version, lib_config.url,
                                 net, payload)
            IN  /\ acquired' = acquired \cup {libIdx}
                /\ trees' = g.fs.trees
                /\ archives' = g.fs.archives
                /\ downloads' = downloads + g.fetched
                /\ IF g.raised # "none"
                   THEN /\ pc' = "raised"
                        /\ UNCHANGED <<library_name, source_dir, functions,
                                       output_dir, cellIdx, results, pbar,
                                       attempted>>
                   ELSE /\ pc' = "matrix"
                        /\ library_name' = lib_name
                        /\ source_dir' = g.ret
                        /\ functions' = GetCryptoFunctions(lib_name)
                        /\ output_dir' = BinariesDir(lib_name)
                        /\ cellIdx' = 1
                        /\ results' = EmptyMap
                        /\ pbar' = 0
                        /\ attempted' = <<>>
    /\ UNCHANGED <<config, libIdx, available_archs, all_results, faults, disk,
                   metadata>>
    /\ UNCHANGED <<labelVars, fileVars, lmCalls, auxVars>>

\* compile_all, line 372: all_results[lib_name] = results, then the next
\* library of the loop or, after the last one, _save_metadata
StoreResults ==
    /\ pc = "matrix"
    /\ libIdx > 0
    /\ cellIdx > NumCells
    /\ all_results' = Put(all_results, library_name, results)
    /\ libIdx' = libIdx + 1
    /\ pc' = IF libIdx < Len(config) THEN "get_library" ELSE "save_metadata"
    /\ UNCHANGED <<config, available_archs, library_name, source_dir,
                   functions, output_dir, cellIdx, results, pbar, attempted,
                   faults, disk, acquired, metadata>>
    /\ UNCHANGED <<labelVars, fileVars, cacheVars, lmCalls, auxVars>>

\* a key string that leaves the optimization level out
KeyStr_noopt(key) ==
    key[1] \o <<"_">> \o key[3]

\* key_str = f"{key[0]}_{key[1]}_{key[2]}"
KeyStr(key) == key[1] \o <<"_">> \o key[2] \o <<"_">> \o key[3]

\* DatasetCompiler._save_metadata: the serializable dict
Serializable(all) ==
    [lib \in DOMAIN all |->
        [ks \in {KeyStr(k) : k \in DOMAIN all[lib]} |->
            all[lib][CHOOSE k \in DOMAIN all[lib] : KeyStr(k) = ks]]]

\* compile_all, lines 375-382
SaveMetadata ==
    /\ pc = "save_metadata"
    /\ metadata' = [written |-> TRUE, libraries |-> Serializable(all_results)]
    /\ pc' = "done"
    /\ UNCHANGED <<config, libIdx, available_archs, library_name, source_dir,
                   functions, output_dir, cellIdx, results, all_results, pbar,
                   attempted, faults, disk, acquired>>
    /\ UNCHANGED <<labelVars, fileVars, cacheVars, lmCalls, auxVars>>

\* the available set of the build runs: only the ARM toolchain is installed
BuildArchs == CheckToolchains({"arm-linux-gnueabi-gcc"})

\* entries of config['crypto_libraries']
LibConfigs ==
    { [name |-> OPENSSL, version |-> <<>>,      url |-> Url_tgz],
      [name |-> OPENSSL, version |-> Version_1, url |-> <<>>],
      [name |-> ZLIB,    version |-> <<>>,      url |-> Url_tgz] }

\* a direct call compile_library(library_name, source_dir, functions,
\* output_dir) on a constructed CrossCompiler
DirectInit ==
    /\ pc = "matrix"
    /\ config = <<>>
    /\ libIdx = 0
    /\ available_archs = BuildArchs
    /\ library_name = OPENSSL
    /\ source_dir = Dir_src
    /\ functions \in SeqsOf({HMAC, AES_encrypt}, 0, MaxFuncs)
    /\ output_dir = Dir_out
    /\ trees \in {EmptyMap} \cup {Put(EmptyMap, Dir_src, tr) : tr \in SourceTrees}
    /\ cellIdx = 1

\* DatasetCompiler(config, output_dir).compile_all(), lines 342-346
CompileAllInit ==
    /\ config \in SeqsOf(LibConfigs, 0, MaxLibs)
    /\ pc = IF config = <<>> THEN "save_metadata" ELSE "get_library"
    /\ libIdx = 1
    /\ available_archs = BuildArchs
    /\ library_name = <<>>
    /\ source_dir = <<>>
    /\ functions = <<>>
    /\ output_dir = <<>>
    /\ trees = EmptyMap
    /\ cellIdx = 0

BuildInit ==
    /\ DirectInit \/ CompileAllInit
    /\ results = EmptyMap /\ all_results = EmptyMap /\ pbar = 0
    /\ attempted = <<>> /\ faults = 0 /\ disk = EmptyMap /\ acquired = {}
    /\ metadata = NoFile
    /\ archives = EmptyMap /\ downloads = 0
    /\ LabelIdle /\ FileIdle /\ CallsIdle /\ AuxIdle

BuildNext ==
    \/ CellStep
    \/ CompileLibraryReturn
    \/ AcquireLibrary
    \/ StoreResults
    \/ SaveMetadata

SpecBuild == BuildInit /\ [][BuildNext]_vars

-----------------------------------------------------------------------------
(* Claims about compile_all and compile_library                            *)

\* the run (compile_all, or the direct compile_library call) has ended
RunEnded == pc \in {"done", "returned", "raised"}

\* C2: in compile_all a failure of one library does not abort the run:
\* when the run has ended, get_library was called for every configured
\* library, also for those after a library that failed
C2_LaterLibrariesStillProcessed ==
    (libIdx > 0 /\ RunEnded) => acquired = 1..Len(config)

\* C3: compile_all raises only when no library of the configuration is
\* buildable; a run in which some library produced a binary completes and
\* writes the metadata document covering every configured library
C3_MetadataUnlessNothingBuildable ==
    (/\ libIdx > 0
     /\ RunEnded
     /\ \E lib \in DOMAIN all_results : all_results[lib] # EmptyMap)
    => /\ pc = "done"
       /\ metadata.written
       /\ DOMAIN metadata.libraries = {config[i].name : i \in 1..Len(config)}

\* a recorded unit that still describes the file on disk
UnitFresh(u) ==
    /\ u.binary_path \in DOMAIN disk
    /\ u.md5 = Md5(disk[u.binary_path])
    /\ u.size = SizeOf(disk[u.binary_path])

\* C4: when a run completes, every entry of the result map and of the
\* persisted metadata references a binary that exists on disk and whose
\* recorded md5 and size are those of the file's current content
C4_RecordedUnitsFresh ==
    /\ pc = "returned" => \A k \in DOMAIN results : UnitFresh(results[k])
    /\ pc = "done" =>
          \A lib \in DOMAIN metadata.libraries :
              \A ks \in DOMAIN metadata.libraries[lib] :
                  UnitFresh(metadata.libraries[lib][ks])

\* C5: compile_library returns normally whatever the per-cell outcomes are:
\* no exception leaves the matrix loop
C5_MatrixNeverRaises ==
    libIdx = 0 => pc # "raised"

\* the cells of the attempted list with one of the given outcomes
CellsWith(outcomes) ==
    {i \in 1..Len(attempted) : attempted[i].outcome \in outcomes}

\* C6: compile_library attempts every cell of the matrix exactly once; on
\* return the result map holds exactly the cells that succeeded, and
\* entries + failed or skipped cells = total cells
C6_FullMatrixAccounted ==
    (libIdx = 0 /\ RunEnded) =>
        /\ {attempted[i].cell : i \in 1..Len(attempted)} = 1..NumCells
        /\ Len(attempted) = NumCells
        /\ pc = "returned" =>
             /\ DOMAIN results =
                   {KeyOf(CellAt(attempted[i].cell)) : i \in CellsWith({"succeeded"})}
             /\ Cardinality(DOMAIN results)
                   + Cardinality(CellsWith({"failed", "skipped"})) = NumCells

-----------------------------------------------------------------------------
(* get_library called directly                                             *)

Dir_openssl_1 == LibDir(OPENSSL, Version_1)

\* the archives a server can serve: their format, their top-level
\* directory and the source files below it
LibPayloads ==
    { [format |-> "tgz", top |-> t, files |-> fl] :
        t \in {OPENSSL, Dir_openssl_1},
        fl \in { tr \in SourceTrees : DOMAIN tr = {File_AES_c} } }
    \cup { [format |-> f, top |-> Dir_upstream,
            files |-> Put(EmptyMap, File_AES_c, 1)] : f \in {"zip", "tar"} }

\* LibraryManager(sources_dir): an empty cache, or one that already holds the
\* tree of identity (openssl, 1)
LibInit ==
    /\ trees \in { EmptyMap,
                   Put(EmptyMap, Dir_openssl_1, Put(EmptyMap, File_AES_c, 1)) }
    /\ archives = EmptyMap
    /\ downloads = 0
    /\ lmCalls = <<>>
    /\ LabelIdle /\ FileIdle /\ BuildIdle /\ AuxIdle

GetLibraryCall ==
    /\ Len(lmCalls) < MaxCalls
    /\ \E name \in {OPENSSL},
          version \in {<<>>, Version_1},
          url \in {<<>>, Url_tgz, Url_zip, Url_txt},
          net \in {"ok", "http_error", "stream_error"},
          payload \in LibPayloads :
        LET before == [trees |-> trees, archives |-> archives]
            g == get_library(before, name, version, url, net, payload)
        IN  /\ trees' = g.fs.trees
            /\ archives' = g.fs.archives
            /\ downloads' = downloads + g.fetched
            /\ lmCalls' = Append(lmCalls,
                   [name |-> name, version |-> version, url |-> url,
                    lib_dir |-> LibDir(name, version),
                    hit |-> PathExists(before, LibDir(name, version)),
                    raised |-> g.raised, ret |-> g.ret,
                    fetched |-> g.fetched,
                    archive |-> g.archive, opened |-> g.opened,
                    payload |-> IF g.archive # <<>> THEN payload ELSE Truncated,
                    before |-> before, after |-> g.fs])
    /\ UNCHANGED <<labelVars, fileVars, buildVars, auxVars>>

LibNext == GetLibraryCall

SpecLib == LibInit /\ [][LibNext]_vars

\* two successive calls with the same identity and url, the first on a cache
\* miss and successful (it downloaded and extracted the archive)
SuccessivePair(i) ==
    /\ i \in 1..(Len(lmCalls) - 1)
    /\ lmCalls[i].name = lmCalls[i + 1].name
    /\ lmCalls[i].version = lmCalls[i + 1].version
    /\ ~lmCalls[i].hit
    /\ lmCalls[i].raised = "none"
    /\ lmCalls[i].url = lmCalls[i + 1].url

\* C9: of two successive get_library calls with the same identity, started
\* without a cache entry, only the first downloads: the second returns the
\* same path without a fetch, whatever the archive's top-level directory
C9_SecondCallIsCacheHit ==
    \A i \in 1..Len(lmCalls) :
        SuccessivePair(i) =>
            /\ lmCalls[i + 1].fetched = 0
            /\ lmCalls[i + 1].raised = "none"
            /\ lmCalls[i + 1].ret = lmCalls[i].ret

\* C10: a cache hit returns the identity-derived path and changes nothing
\* (no download, no extraction, no file-system change), with or without a
\* url; and no get_library call deletes or replaces an existing source tree
C10_CacheHitNoOpTreesKept ==
    \A i \in 1..Len(lmCalls) :
        LET c == lmCalls[i]
        IN  /\ c.hit => /\ c.ret = c.lib_dir
                        /\ c.raised = "none"
                        /\ c.fetched = 0
                        /\ c.after = c.before
            /\ \A d \in DOMAIN c.before.trees :
                  /\ d \in DOMAIN c.after.trees
                  /\ c.after.trees[d] = c.before.trees[d]


-----------------------------------------------------------------------------
(* get_library on a miss: missing url, archive formats, archive cleanup    *)

\* the calls of the history that found no cache entry and were given no url
MissNoUrl(c) == ~c.hit /\ c.url = <<>>

\* C12 as stated: on a cache miss without url, get_library fails with
\* MissingSourceError, downloads nothing and changes no file or directory
C12_MissingSourceError ==
    \A i \in 1..Len(lmCalls) :
        MissNoUrl(lmCalls[i]) =>
            /\ lmCalls[i].raised = "MissingSourceError"
            /\ lmCalls[i].fetched = 0
            /\ lmCalls[i].after = lmCalls[i].before

\* C12 amended: on a cache miss without url, get_library fails with the
\* built-in ValueError, downloads nothing and changes no file or directory
C12_MissNoUrlValueError ==
    \A i \in 1..Len(lmCalls) :
        MissNoUrl(lmCalls[i]) =>
            /\ lmCalls[i].raised = "ValueError"
            /\ lmCalls[i].ret = <<>>
            /\ lmCalls[i].fetched = 0
            /\ lmCalls[i].after = lmCalls[i].before

C12_Witness ==
    \E i \in 1..Len(lmCalls) :
        MissNoUrl(lmCalls[i]) /\ lmCalls[i].raised = "ValueError"

\* the calls of the history whose download completed: c.archive is the file
\* _download_file returned and _extract_archive was given
Downloaded(c) == c.archive # <<>>

\* the call changed some source tree, i.e. extractall wrote members
Extracted(c) == c.after.trees # c.before.trees

\* C13 as stated: an archive whose extension is neither gzip-tar nor zip is
\* rejected with UnsupportedArchiveError before any extraction is attempted,
\* and only gzip-tar and zip archives are ever extracted
C13_UnsupportedArchiveError ==
    \A i \in 1..Len(lmCalls) :
        LET c == lmCalls[i]
        IN  /\ (Downloaded(c) /\ ArchiveKind(c.archive) = "unsupported") =>
                  /\ c.raised = "UnsupportedArchiveError"
                  /\ c.opened = "none"
                  /\ ~Extracted(c)
            /\ Extracted(c) => c.payload.format \in {"tgz", "zip"}

\* C13 amended: an archive whose file name ends neither in .gz nor in .zip
\* is rejected with ValueError before tarfile or zipfile is opened and
\* nothing is extracted; whatever is extracted is a gzip-compressed tar
\* opened by tarfile or a zip opened by zipfile
C13_UnsupportedSuffixValueError ==
    \A i \in 1..Len(lmCalls) :
        LET c == lmCalls[i]
        IN  /\ (Downloaded(c) /\ Suffix(c.archive) \notin {Suffix_gz, Suffix_zip}) =>
                  /\ c.raised = "ValueError"
                  /\ c.opened = "none"
                  /\ ~Extracted(c)
            /\ Extracted(c) =>
                  /\ c.payload.format \in {"tgz", "zip"}
                  /\ c.opened = c.payload.format

C13_Witness ==
    /\ \E i \in 1..Len(lmCalls) :
          /\ Downloaded(lmCalls[i])
          /\ Suffix(lmCalls[i].archive) \notin {Suffix_gz, Suffix_zip}
          /\ lmCalls[i].payload.format = "tgz"
          /\ lmCalls[i].raised = "ValueError"
    /\ \E i \in 1..Len(lmCalls) :
          Extracted(lmCalls[i]) /\ lmCalls[i].opened = "zip"

\* C14: on a cache miss whose download completed, the archive is deleted if
\* and only if extraction succeeded: after a successful extraction it is
\* gone, after a failed one it is still on disk and the failure is raised
C14_ArchiveDeletedIffExtracted ==
    \A i \in 1..Len(lmCalls) :
        LET c == lmCalls[i]
        IN  Downloaded(c) =>
              /\ c.raised = "none" =>
                    /\ c.archive \notin DOMAIN c.after.archives
                    /\ c.ret = c.lib_dir
              /\ c.raised # "none" =>
                    /\ c.archive \in DOMAIN c.after.archives
                    /\ c.after.archives[c.archive] = c.payload
                    /\ c.raised \in {"ValueError", "ReadError", "FileExistsError"}
                    /\ c.ret = <<>>

C14_Witness ==
    /\ \E i \in 1..Len(lmCalls) :
          /\ Downloaded(lmCalls[i]) /\ lmCalls[i].raised = "none"
          /\ lmCalls[i].archive \notin DOMAIN lmCalls[i].after.archives
    /\ \E i \in 1..Len(lmCalls) :
          /\ Downloaded(lmCalls[i]) /\ lmCalls[i].raised = "ReadError"
          /\ lmCalls[i].archive \in DOMAIN lmCalls[i].after.archives

-----------------------------------------------------------------------------
(* get_library called by concurrent callers for one identity               *)
(*                                                                         *)
(* Each caller runs get_library's statements in order; the statements of   *)
(* different callers interleave, as the code takes no lock and uses no     *)
(* temporary name: both write, read and unlink sources_dir/<filename>.     *)

MaxCallers == 2     \* concurrent get_library callers

Procs == 1..MaxCallers

\* the source tree at lib_dir holds every member of the archive
TreeComplete(fs, lib_dir, body) ==
    /\ lib_dir \in DOMAIN fs.trees
    /\ \A f \in DOMAIN body.files :
          /\ f \in DOMAIN fs.trees[lib_dir]
          /\ fs.trees[lib_dir][f] = body.files[f]

\* no prior cache entry; the callers share name, version and url, and the
\* server serves one archive
RaceInit ==
    /\ trees = EmptyMap /\ archives = EmptyMap /\ downloads = 0
    /\ \E version \in {<<>>, Version_1},
          url \in {<<>>, Url_tgz},
          body \in {b \in LibPayloads : b.format = "tgz"} :
         callers = [p \in Procs |->
                      [name |-> OPENSSL, version |-> version, url |-> url,
                       lib_dir |-> LibDir(OPENSSL, version), body |-> body,
                       pc |-> "check", raised |-> "none", ret |-> <<>>,
                       clobbered |-> FALSE, complete |-> FALSE]]
    /\ lmCalls = <<>>
    /\ LabelIdle /\ FileIdle /\ BuildIdle /\ ExtractIdle /\ DetectIdle
    /\ BatchIdle /\ MoreIdle

Fs == [trees |-> trees, archives |-> archives]

Raise(p, exc) == callers' = [callers EXCEPT ![p].pc = "raised", ![p].raised = exc]
Goto(p, label) == callers' = [callers EXCEPT ![p].pc = label]
Return(p, fs) ==
    callers' = [callers EXCEPT ![p].pc = "returned",
                               ![p].ret = callers[p].lib_dir,
                               ![p].complete =
                                   TreeComplete(fs, callers[p].lib_dir, callers[p].body)]

\* lines 52-57, 70-72: the cache test and the url test
RaceCheck ==
    \E p \in Procs :
        /\ callers[p].pc = "check"
        /\ IF PathExists(Fs, callers[p].lib_dir) THEN Return(p, Fs)
           ELSE IF callers[p].url = <<>> THEN Raise(p, "ValueError")
           ELSE Goto(p, "request")
        /\ UNCHANGED cacheVars
        /\ UNCHANGED <<labelVars, fileVars, buildVars, lmCalls, readelf_available,
                       exCall, detectCall, heap, batchCall, moreVars>>

\* _download_file lines 87-88: requests.get and raise_for_status
RaceRequest ==
    \E p \in Procs :
        /\ callers[p].pc = "request"
        /\ downloads' = downloads + 1
        /\ \E net \in {"ok", "http_error"} :
              IF net = "ok" THEN Goto(p, "open") ELSE Raise(p, "RequestException")
        /\ UNCHANGED <<trees, archives>>
        /\ UNCHANGED <<labelVars, fileVars, buildVars, lmCalls, readelf_available,
                       exCall, detectCall, heap, batchCall, moreVars>>

\* _download_file line 92: open(output_path, 'wb') creates or truncates the
\* file; a caller already writing it has its bytes cut off
RaceOpen ==
    \E p \in Procs :
        /\ callers[p].pc = "open"
        /\ LET filename == UrlFilename(callers[p].url)
           IN  IF filename = <<>> \/ filename \in DOMAIN trees
               THEN Raise(p, "IsADirectoryError") /\ UNCHANGED archives
               ELSE /\ archives' = Put(archives, filename, Truncated)
                    /\ callers' = [q \in Procs |->
                          IF q = p THEN [callers[q] EXCEPT !.pc = "write"]
                          ELSE IF callers[q].pc = "write"
                          THEN [callers[q] EXCEPT !.clobbered = TRUE]
                          ELSE callers[q]]
        /\ UNCHANGED <<trees, downloads>>
        /\ UNCHANGED <<labelVars, fileVars, buildVars, lmCalls, readelf_available,
                       exCall, detectCall, heap, batchCall, moreVars>>

\* _download_file lines 93-100: the chunks are written at the caller's own
\* offsets. The file is whole when the caller ends, unless another caller
\* truncated it meanwhile and has not yet rewritten the head; a file that
\* was unlinked meanwhile stays absent.
RaceWrite ==
    \E p \in Procs :
        /\ callers[p].pc = "write"
        /\ LET filename == UrlFilename(callers[p].url)
               racing   == callers[p].clobbered
                           /\ \E q \in Procs \ {p} : callers[q].pc = "write"
           IN  IF filename \notin DOMAIN archives THEN UNCHANGED archives
               ELSE \E content \in (IF racing THEN {Truncated} ELSE {}) \cup {callers[p].body} :
                       archives' = Put(archives, filename, content)
        /\ Goto(p, "extract")
        /\ UNCHANGED <<trees, downloads>>
        /\ UNCHANGED <<labelVars, fileVars, buildVars, lmCalls, readelf_available,
                       exCall, detectCall, heap, batchCall, moreVars>>

\* _extract_archive lines 112-121: the archive is opened by name and its
\* top-level directory is made
RaceExtractOpen ==
    \E p \in Procs :
        /\ callers[p].pc = "extract"
        /\ LET filename == UrlFilename(callers[p].url)
           IN  IF filename \notin DOMAIN archives
               THEN Raise(p, "FileNotFoundError") /\ UNCHANGED trees
               ELSE LET payload == archives[filename]
                        e == ExtractArchive(Fs, filename)
                    IN  IF e.raised # "none"
                        THEN Raise(p, e.raised) /\ UNCHANGED trees
                        ELSE /\ trees' = ExtractAll(Fs, [payload EXCEPT !.files = EmptyMap]).trees
                             /\ Goto(p, "extracting")
        /\ UNCHANGED <<archives, downloads>>
        /\ UNCHANGED <<labelVars, fileVars, buildVars, lmCalls, readelf_available,
                       exCall, detectCall, heap, batchCall, moreVars>>

\* extractall writes the members; a file truncated under the reader ends
\* the read early
RaceExtractAll ==
    \E p \in Procs :
        /\ callers[p].pc = "extracting"
        /\ LET filename == UrlFilename(callers[p].url)
           IN  IF filename \in DOMAIN archives /\ archives[filename] = Truncated
               THEN Raise(p, "ReadError") /\ UNCHANGED trees
               ELSE /\ trees' = ExtractAll(Fs, callers[p].body).trees
                    /\ Goto(p, "unlink")
        /\ UNCHANGED <<archives, downloads>>
        /\ UNCHANGED <<labelVars, fileVars, buildVars, lmCalls, readelf_available,
                       exCall, detectCall, heap, batchCall, moreVars>>

\* lines 66-68: archive_path.unlink() and return str(lib_dir)
RaceUnlink ==
    \E p \in Procs :
        /\ callers[p].pc = "unlink"
        /\ LET filename == UrlFilename(callers[p].url)
           IN  IF filename \notin DOMAIN archives
               THEN Raise(p, "FileNotFoundError") /\ UNCHANGED archives
               ELSE /\ archives' = UnlinkArchive(Fs, filename).archives
                    /\ Return(p, Fs)
        /\ UNCHANGED <<trees, downloads>>
        /\ UNCHANGED <<labelVars, fileVars, buildVars, lmCalls, readelf_available,
                       exCall, detectCall, heap, batchCall, moreVars>>

RaceNext ==
    \/ RaceCheck \/ RaceRequest \/ RaceOpen \/ RaceWrite
    \/ RaceExtractOpen \/ RaceExtractAll \/ RaceUnlink

SpecRace == RaceInit /\ [][RaceNext]_vars

\* the server answers every request and the archive unpacks into lib_dir
RaceFair ==
    \A p \in Procs :
        /\ callers[p].url # <<>>
        /\ callers[p].body.top = callers[p].lib_dir
        /\ callers[p].raised # "RequestException"

\* C11: concurrent get_library callers for one (name, version) without a
\* prior cache entry do not race: one download occurs, no caller fails
\* because of another, and each returns the path of a complete tree
C11_ConcurrentCallersDoNotRace ==
    (callers # <<>> /\ RaceFair) =>
        /\ downloads <= 1
        /\ \A p \in Procs :
              /\ callers[p].pc # "raised"
              /\ callers[p].pc = "returned" => callers[p].complete

-----------------------------------------------------------------------------
(* FunctionExtractor                                                       *)

MaxRows  == 2       \* lines of readelf output
MaxBytes == 4       \* bytes of a binary image

HexDigits == <<"0","1","2","3","4","5","6","7","8","9","a","b","c","d","e","f">>

\* the value of one digit in the given base, -1 if it is no digit of it
DigitVal(ch, base) ==
    LET c    == LowerChar(ch)
        hits == {i \in 1..base : HexDigits[i] = c}
    IN  IF hits = {} THEN -1 ELSE (CHOOSE i \in hits : TRUE) - 1

\* int(token, base) for unsigned literals: ok is FALSE where int() raises
\* ValueError
RECURSIVE ParseDigits(_, _, _)
ParseDigits(token, base, acc) ==
    IF token = <<>> THEN [ok |-> TRUE, val |-> acc]
    ELSE IF DigitVal(Head(token), base) = -1 THEN [ok |-> FALSE, val |-> 0]
    ELSE ParseDigits(Tail(token), base, acc * base + DigitVal(Head(token), base))

Prefix_0x == <<"0","x">>

ParseInt(token, base) ==
    LET body == IF base = 16 /\ Len(token) > 2 /\ Lower(SubSeq(token, 1, 2)) = Prefix_0x
                THEN SubSeq(token, 3, Len(token)) ELSE token
    IN  IF body = <<>> THEN [ok |-> FALSE, val |-> 0]
        ELSE ParseDigits(body, base, 0)

FUNC == <<"F","U","N","C">>

\* 'FUNC' in line: a line is the sequence of its whitespace-separated fields
LineHasFUNC(parts) == \E i \in 1..Len(parts) : Contains(parts[i], FUNC)

\* _extract_from_symbols, lines 85-100: the record one output line yields
ParseRow(parts) ==
    IF ~LineHasFUNC(parts) \/ Len(parts) < 8 THEN <<>>
    ELSE LET address == ParseInt(parts[2], 16)
             size    == ParseInt(parts[3], 10)
         IN  IF ~address.ok \/ ~size.ok THEN <<>>
             ELSE << [address |-> address.val, size |-> size.val,
                      name |-> parts[8], source |-> "symbol"] >>

\* _extract_from_symbols, lines 83-102: the loop over result.stdout
RECURSIVE ParseSymbols(_)
ParseSymbols(stdout) ==
    IF stdout = <<>> THEN <<>>
    ELSE ParseRow(Head(stdout)) \o ParseSymbols(Tail(stdout))

\* lines of `readelf -s` output, split into fields
Row_main      == <<<<"5",":">>, <<"0","0","0","0","1","1","3","9">>, <<"4","2">>, <<"F","U","N","C">>, <<"G","L","O","B","A","L">>, <<"D","E","F","A","U","L","T">>, <<"1","4">>, <<"m","a","i","n">>>>
Row_aes       == <<<<"6",":">>, <<"0","0","0","0","1","1","A","0">>, <<"1","6">>, <<"F","U","N","C">>, <<"L","O","C","A","L">>, <<"D","E","F","A","U","L","T">>, <<"1","4">>, <<"A","E","S","_","e","n","c","r","y","p","t">>>>
Row_object    == <<<<"7",":">>, <<"0","0","0","0","4","0","1","0">>, <<"4">>, <<"O","B","J","E","C","T">>, <<"G","L","O","B","A","L">>, <<"D","E","F","A","U","L","T">>, <<"2","5">>, <<"t","a","b","l","e">>>>
Row_versioned == <<<<"8",":">>, <<"0","0","0","0","0","0","0","0">>, <<"0">>, <<"F","U","N","C">>, <<"G","L","O","B","A","L">>, <<"D","E","F","A","U","L","T">>, <<"U","N","D">>, <<"p","u","t","s","@","G","L","I","B","C","_","2",".","2",".","5">>, <<"(","2",")">>>>
Row_bigsize   == <<<<"9",":">>, <<"0","0","0","0","2","0","0","0">>, <<"0","x","2","0","0","0","0">>, <<"F","U","N","C">>, <<"G","L","O","B","A","L">>, <<"D","E","F","A","U","L","T">>, <<"1","4">>, <<"b","i","g">>>>
Row_short     == <<<<"F","U","N","C">>, <<"e","n","t","r","i","e","s",":">>>>
Row_funcname  == <<<<"1","0",":">>, <<"0","0","0","0","4","0","2","0">>, <<"8">>, <<"O","B","J","E","C","T">>, <<"G","L","O","B","A","L">>, <<"D","E","F","A","U","L","T">>, <<"2","5">>, <<"M","Y","_","F","U","N","C","_","p","t","r">>>>

ReadelfRows == {Row_main, Row_aes, Row_object, Row_versioned, Row_bigsize, Row_short, Row_funcname}

\* what the readelf process does: its end and, on exit code 0, its output
ReadelfRuns ==
    { [outcome |-> o, stdout |-> <<>>] :
        o \in {"nonzero", "TimeoutExpired", "OSError", "UnicodeDecodeError"} }
    \cup { [outcome |-> "zero", stdout |-> out] : out \in SeqsOf(ReadelfRows, 0, MaxRows) }

\* the except-Exception handler of both extraction paths: any exception
\* becomes the empty list
Guard_oserror(r) ==
    IF r.raised \in {"none", "OSError"} THEN [raised |-> "none", functions |-> IF r.raised = "none" THEN r.functions ELSE <<>>] ELSE r
Guard(r) ==
    [raised |-> "none", functions |-> IF r.raised = "none" THEN r.functions ELSE <<>>]

\* FunctionExtractor._extract_from_symbols
ExtractFromSymbols(has_readelf, run) ==
    IF ~has_readelf THEN [raised |-> "none", functions |-> <<>>]
    ELSE Guard(IF run.outcome \in {"TimeoutExpired", "OSError", "UnicodeDecodeError"}
               THEN [raised |-> run.outcome, functions |-> <<>>]
               ELSE IF run.outcome = "nonzero"
               THEN [raised |-> "none", functions |-> <<>>]
               ELSE [raised |-> "none", functions |-> ParseSymbols(run.stdout)])

\* f'{offset:x}'
RECURSIVE ToHex(_)
ToHex(n) ==
    IF n < 16 THEN <<HexDigits[n + 1]>>
    ELSE ToHex(n \div 16) \o <<HexDigits[(n % 16) + 1]>>

Sub_ == <<"s","u","b","_">>

\* b'\x55\x89\xe5': push ebp; mov ebp, esp
prologue_pattern == <<85, 137, 229>>

\* bytes.find(pattern, start): the lowest offset >= start, -1 if none
\* (offsets count from 0)
Find(data, pattern, start) ==
    LET hits == {o \in start..(Len(data) - Len(pattern)) :
                    SubSeq(data, o + 1, o + Len(pattern)) = pattern}
    IN  IF hits = {} THEN -1 ELSE CHOOSE o \in hits : \A h \in hits : o <= h

\* a scan that stops at the first prologue
Scan_first(data, offset) ==
    LET found == Find(data, prologue_pattern, offset)
    IN  IF found = -1 THEN <<>>
        ELSE << [address |-> found, size |-> 0, name |-> Sub_ \o ToHex(found),
                 source |-> "heuristic"] >>

\* _extract_heuristic, lines 132-145: the scan loop
RECURSIVE Scan(_, _)
Scan(data, offset) ==
    LET found == Find(data, prologue_pattern, offset)
    IN  IF found = -1 THEN <<>>
        ELSE << [address |-> found, size |-> 0, name |-> Sub_ \o ToHex(found),
                 source |-> "heuristic"] >> \o Scan(data, found + 1)

\* an image with two prologues, a stray byte between them
TwoPrologues == prologue_pattern \o <<137>> \o prologue_pattern

\* an image with prologues at the offsets 10 and 26
PaddedPrologues ==
    [i \in 1..10 |-> 0] \o prologue_pattern \o [i \in 1..13 |-> 144]
        \o prologue_pattern \o <<195>>

\* what Path(binary_path).read_bytes() does
FileReads ==
    { [outcome |-> o, data |-> <<>>] :
        o \in {"FileNotFoundError", "PermissionError", "IsADirectoryError"} }
    \cup { [outcome |-> "ok", data |-> d] :
             d \in SeqsOf({85, 137, 229}, 0, MaxBytes)
                   \cup {TwoPrologues, PaddedPrologues} }

\* FunctionExtractor._extract_heuristic
ExtractHeuristic(read) ==
    Guard(IF read.outcome # "ok"
          THEN [raised |-> read.outcome, functions |-> <<>>]
          ELSE [raised |-> "none", functions |-> Scan(read.data, 0)])

\* an extract_all that scans every binary, symbols or not
extract_all_always(s, h) ==
    [raised |-> IF s.raised # "none" THEN s.raised ELSE h.raised,
     functions |-> s.functions \o h.functions, scanned |-> TRUE,
     symbol_functions |-> s.functions]
\* FunctionExtractor.extract_all: s is what _extract_from_symbols gives, h
\* what _extract_heuristic gives if it is called
extract_all(s, h) ==
    IF s.raised # "none"
    THEN [raised |-> s.raised, functions |-> <<>>, scanned |-> FALSE,
          symbol_functions |-> <<>>]
    ELSE IF s.functions # <<>>
    THEN [raised |-> "none", functions |-> s.functions, scanned |-> FALSE,
          symbol_functions |-> s.functions]
    ELSE [raised |-> h.raised, functions |-> h.functions, scanned |-> TRUE,
          symbol_functions |-> s.functions]

-----------------------------------------------------------------------------
(* extract_all called on a binary                                          *)

NoRun  == [outcome |-> "not run", stdout |-> <<>>]
NoRead == [outcome |-> "not read", data |-> <<>>]

\* FunctionExtractor(): shutil.which('readelf') found the tool or not
ExtractInit ==
    /\ readelf_available \in BOOLEAN
    /\ exCall = NoCall
    /\ LabelIdle /\ FileIdle /\ BuildIdle /\ CacheIdle /\ CallsIdle /\ RaceIdle
    /\ DetectIdle /\ BatchIdle /\ MoreIdle

\* extract_all(binary_path): run is what the readelf process does, read
\* what reading the file gives
ExtractAllCall ==
    /\ exCall = NoCall
    /\ \E run \in ReadelfRuns :
        \E s \in {ExtractFromSymbols(readelf_available, run)}, read \in FileReads :
          LET r == extract_all(s, ExtractHeuristic(read))
          IN  exCall' = [kind |-> "extract_all",
                         run |-> IF readelf_available THEN run ELSE NoRun,
                         read |-> IF r.scanned THEN read ELSE NoRead,
                         symbol_functions |-> r.symbol_functions,
                         scanned |-> r.scanned,
                         raised |-> r.raised,
                         functions |-> r.functions]
    /\ UNCHANGED <<labelVars, fileVars, buildVars, cacheVars, lmCalls,
                   callers, readelf_available, detectCall, heap, batchCall,
                   moreVars>>

ExtractNext == ExtractAllCall

SpecExtract == ExtractInit /\ [][ExtractNext]_vars

IsExtractCall == exCall.kind = "extract_all"

Sources(fns) == {fns[i].source : i \in 1..Len(fns)}

\* C15: extract_all runs the heuristic scan exactly when symbol-table
\* extraction returned no function; a result is all symbol records or all
\* heuristic records; with a symbol function present there is no heuristic
\* record even if the prologue pattern occurs in the file
C15_HeuristicIffNoSymbols ==
    IsExtractCall =>
        /\ exCall.scanned <=> exCall.symbol_functions = <<>>
        /\ Sources(exCall.functions) \in {{}, {"symbol"}, {"heuristic"}}
        /\ exCall.symbol_functions # <<>> =>
              /\ exCall.functions = exCall.symbol_functions
              /\ "heuristic" \notin Sources(exCall.functions)

C15_Witness ==
    /\ IsExtractCall
    /\ exCall.symbol_functions = <<>>
    /\ exCall.scanned
    /\ Len(exCall.functions) = 2
    /\ Sources(exCall.functions) = {"heuristic"}

\* C16: extract_all never raises: a read failure, a missing tool, a
\* non-zero exit, a timeout or any other exception in either path gives the
\* empty result for that path
C16_ExtractAllNeverRaises ==
    IsExtractCall =>
        /\ exCall.raised = "none"
        /\ exCall.run.outcome \notin {"zero"} => exCall.symbol_functions = <<>>
        /\ (exCall.scanned /\ exCall.read.outcome # "ok") => exCall.functions = <<>>

C16_Witness ==
    /\ IsExtractCall
    /\ exCall.run.outcome = "TimeoutExpired"
    /\ exCall.read.outcome = "PermissionError"
    /\ exCall.raised = "none"
    /\ exCall.functions = <<>>

-----------------------------------------------------------------------------
(* label_function and _detect_algorithm on arbitrary names                 *)

MaxFields == 5      \* underscore-separated fields of a binary's stem
MaxWords  == 3      \* underscore-separated words of a function name

\* '_'.join(words)
RECURSIVE JoinWith(_, _)
JoinWith(words, sep) ==
    IF words = <<>> THEN <<>>
    ELSE IF Len(words) = 1 THEN words[1]
    ELSE words[1] \o <<sep>> \o JoinWith(Tail(words), sep)

Word_o0     == <<"o","0">>
Word_foo    == <<"f","o","o">>
Word_hmac   == <<"h","m","a","c">>
Word_sha256 == <<"s","h","a","2","5","6">>
Word_init   == <<"i","n","i","t">>
Word_3DES   == <<"3","D","E","S">>
Word_AES    == <<"A","E","S">>
Ext_bin     == <<".","b","i","n">>

\* stems of binary names: up to MaxFields fields, empty fields included
StemFields == {OPENSSL, Word_AES, X86, Word_o0, <<>>}
BinaryPaths ==
    { Dir_out \o <<"/">> \o JoinWith(f, "_") \o Ext_bin :
        f \in SeqsOf(StemFields, 1, MaxFields) }

\* function names: up to MaxWords words
NameWords == {Word_hmac, Word_sha256, Word_init, Word_3DES, Word_AES, Word_foo}
FunctionNames == { JoinWith(w, "_") : w \in SeqsOf(NameWords, 1, MaxWords) }

hmac_sha256_init == JoinWith(<<Word_hmac, Word_sha256, Word_init>>, "_")

NameInit ==
    /\ LabelIdle /\ FileIdle /\ BuildIdle /\ CacheIdle /\ CallsIdle
    /\ RaceIdle /\ ExtractIdle /\ DetectIdle /\ BatchIdle /\ MoreIdle

\* label_function(binary_path, function_info) for any binary name
LabelFunctionCall ==
    /\ labelOut = NoInfo /\ detectCall = NoCall
    /\ \E path \in BinaryPaths :
         /\ labelPath' = path
         /\ labelOut' = label_function(path, [name |-> Word_foo, address |-> 0,
                                              size |-> 16])
    /\ UNCHANGED <<labelCell, fileVars, buildVars, cacheVars, lmCalls,
                   callers, readelf_available, exCall, detectCall, heap,
                   batchCall, moreVars>>

\* _detect_algorithm(function_name) for any function name
DetectAlgorithmCall ==
    /\ labelOut = NoInfo /\ detectCall = NoCall
    /\ \E function_name \in FunctionNames :
         detectCall' = [kind |-> "detect", function_name |-> function_name,
                        ret |-> DetectAlgorithm(function_name)]
    /\ UNCHANGED <<labelVars, fileVars, buildVars, cacheVars, lmCalls,
                   callers, readelf_available, exCall, heap, batchCall,
                   moreVars>>

NameNext == LabelFunctionCall \/ DetectAlgorithmCall

SpecName == NameInit /\ [][NameNext]_vars

\* the number of '_'-separated fields of the stem: one more than its
\* underscores
RECURSIVE CountChar(_, _)
CountChar(s, ch) ==
    IF s = <<>> THEN 0
    ELSE (IF Head(s) = ch THEN 1 ELSE 0) + CountChar(Tail(s), ch)

FieldsOf(binary_path) == CountChar(Stem(PathName(binary_path)), "_") + 1

\* C17: a stem with fewer than four underscore-separated fields is labelled
\* exactly {algorithm: Unknown, is_crypto: false}; one with four or more is
\* labelled is_crypto true, whether or not its algorithm is Unknown
C17_ShortNameUnknown ==
    labelOut # NoInfo =>
        /\ FieldsOf(labelPath) < 4 =>
              labelOut.label = [algorithm |-> "Unknown", is_crypto |-> FALSE]
        /\ FieldsOf(labelPath) >= 4 => labelOut.label.is_crypto = TRUE

C17_Witness ==
    /\ labelOut # NoInfo
    /\ FieldsOf(labelPath) = 3
    /\ DOMAIN labelOut.label = {"algorithm", "is_crypto"}

\* the catalog keywords the lower-cased name contains
KeywordsIn(function_name) ==
    {i \in 1..Len(ALGORITHM_MAP) : Contains(Lower(function_name), ALGORITHM_MAP[i].key)}

\* C18: _detect_algorithm returns the algorithm of the first catalog
\* keyword, in declaration order, that the lower-cased name contains, and
\* Unknown when it contains none; "hmac_sha256_init" gives SHA-256
C18_FirstKeywordWins ==
    detectCall # NoCall =>
        LET hits == KeywordsIn(detectCall.function_name)
        IN  /\ hits = {} => detectCall.ret = "Unknown"
            /\ \A i \in hits :
                  (\A j \in hits : i <= j) => detectCall.ret = ALGORITHM_MAP[i].value
            /\ detectCall.function_name = hmac_sha256_init =>
                  detectCall.ret = "SHA-256"

C18_Witness ==
    /\ detectCall # NoCall
    /\ detectCall.function_name = hmac_sha256_init
    /\ Cardinality(KeywordsIn(detectCall.function_name)) = 2
    /\ detectCall.ret = "SHA-256"


-----------------------------------------------------------------------------
(* label_batch: dict objects and the references to them                    *)
(*                                                                         *)
(* A dict is an object of the heap; lists and dict values hold references, *)
(* so that a copy and an alias are different things.                       *)

MaxObjs  == 2       \* function dicts on the heap before the call
MaxBatch == 3       \* length of the functions list given to label_batch

Ref(r) == [ref |-> r]

\* a new object: the heap with it, and its reference
Alloc(h, obj) == [heap |-> Append(h, obj), ref |-> Len(h) + 1]

\* dict.copy(): a new dict with the same items (values are not copied)
DictCopy(h, r) == Alloc(h, h[r])

\* d[key] = value
SetItem(d, key, value) ==
    [k \in DOMAIN d \cup {key} |-> IF k = key THEN value ELSE d[k]]

\* a label_function that leaves a dict alone that already has a 'label'
LabelFunctionRef_keep(h, binary_path, r) ==
    IF "label" \in DOMAIN h[r] THEN [heap |-> h, ref |-> r]
    ELSE LET a == Alloc(h, LabelOf(binary_path))
         IN  [heap |-> [a.heap EXCEPT ![r] = SetItem(@, "label", Ref(a.ref))],
              ref  |-> r]
\* label_function on a referenced dict: a new label dict is built, stored
\* under 'label' in the dict given, and that dict is returned
LabelFunctionRef(h, binary_path, r) ==
    LET a == Alloc(h, LabelOf(binary_path))
    IN  [heap |-> [a.heap EXCEPT ![r] = SetItem(@, "label", Ref(a.ref))],
         ref  |-> r]

\* a label_batch that labels the dicts it is given
RECURSIVE label_batch_inplace(_, _, _)
label_batch_inplace(h, binary_path, functions_) ==
    IF functions_ = <<>> THEN [heap |-> h, ret |-> <<>>]
    ELSE LET l == LabelFunctionRef(h, binary_path, Head(functions_))
             rest == label_batch_inplace(l.heap, binary_path, Tail(functions_))
         IN  [heap |-> rest.heap, ret |-> <<l.ref>> \o rest.ret]
\* AutoLabeler.label_batch:
\* [self.label_function(binary_path, func.copy()) for func in functions]
RECURSIVE label_batch(_, _, _)
label_batch(h, binary_path, functions_) ==
    IF functions_ = <<>> THEN [heap |-> h, ret |-> <<>>]
    ELSE LET c == DictCopy(h, Head(functions_))
             l == LabelFunctionRef(c.heap, binary_path, c.ref)
             rest == label_batch(l.heap, binary_path, Tail(functions_))
         IN  [heap |-> rest.heap, ret |-> <<l.ref>> \o rest.ret]

\* a label dict left by an earlier labelling
StaleLabel == [algorithm |-> "Unknown", is_crypto |-> FALSE]

\* function dicts as extract_all builds them, bare or already labelled with
\* the dict at reference 1
FunctionDicts ==
    { [name |-> Word_foo, address |-> 0, size |-> 16, source |-> "symbol"],
      [name |-> Word_foo, address |-> 4096, size |-> 0, source |-> "heuristic"],
      [name |-> Word_foo, address |-> 0, size |-> 16, source |-> "symbol",
       label |-> Ref(1)] }

Path_aes_bin == OutputFile(Dir_out, OPENSSL, Word_AES, X86, OPTIMIZATION_LEVELS[1])
Path_foo_bin == Dir_out \o <<"/">> \o Word_foo \o Ext_bin

BatchInit ==
    /\ \E dicts \in SeqsOf(FunctionDicts, 0, MaxObjs) : heap = <<StaleLabel>> \o dicts
    /\ batchCall = NoCall
    /\ LabelIdle /\ FileIdle /\ BuildIdle /\ CacheIdle /\ CallsIdle
    /\ RaceIdle /\ ExtractIdle /\ DetectIdle /\ MoreIdle

\* label_batch(binary_path, functions): functions is a list of references
\* to function dicts, the same dict possibly more than once
LabelBatchCall ==
    /\ batchCall = NoCall
    /\ \E binary_path \in {Path_aes_bin, Path_foo_bin},
          fns \in SeqsOf(2..Len(heap), 0, MaxBatch) :
         LET b == label_batch(heap, binary_path, fns)
         IN  /\ heap' = b.heap
             /\ batchCall' = [kind |-> "label_batch", binary_path |-> binary_path,
                              functions |-> fns, before |-> heap, ret |-> b.ret]
    /\ UNCHANGED <<labelVars, fileVars, buildVars, cacheVars, lmCalls,
                   callers, readelf_available, exCall, detectCall, moreVars>>

BatchNext == LabelBatchCall

SpecBatch == BatchInit /\ [][BatchNext]_vars

\* a dict without its 'label' item
Unlabelled(d) == [k \in DOMAIN d \ {"label"} |-> d[k]]

\* C20: label_batch returns one labelled record per input function, in
\* input order, each a copy of its own: no input dict is changed (none
\* gains a 'label'), every output is a new dict, and no two outputs share a
\* label dict
C20_BatchCopiesInputs ==
    batchCall # NoCall =>
        LET c   == batchCall
            old == 1..Len(c.before)
            n   == Len(c.functions)
        IN  /\ Len(c.ret) = n
            /\ \A r \in old : heap[r] = c.before[r]
            /\ \A i \in 1..n :
                  /\ c.ret[i] \notin old
                  /\ Unlabelled(heap[c.ret[i]]) = Unlabelled(c.before[c.functions[i]])
                  /\ heap[c.ret[i]].label.ref \notin old
                  /\ heap[heap[c.ret[i]].label.ref] = LabelOf(c.binary_path)
            /\ \A i, j \in 1..n :
                  i # j => /\ c.ret[i] # c.ret[j]
                           /\ heap[c.ret[i]].label.ref # heap[c.ret[j]].label.ref

C20_Witness ==
    /\ batchCall # NoCall
    /\ Len(batchCall.ret) = 3
    /\ batchCall.functions[1] = batchCall.functions[3]
    /\ "label" \notin DOMAIN batchCall.before[batchCall.functions[1]]
    /\ "label" \in DOMAIN batchCall.before[batchCall.functions[2]]
    /\ batchCall.ret[1] # batchCall.ret[3]

-----------------------------------------------------------------------------
(* compile_library for openssl/AES_encrypt, then label_function per unit   *)

Bin_x86_64_o0 == <<"o","p","e","n","s","s","l","_","A","E","S","_","e","n","c","r","y","p","t","_","x","8","6","-","6","4","_","o","0",".","b","i","n">>
Bin_x86_64_o2 == <<"o","p","e","n","s","s","l","_","A","E","S","_","e","n","c","r","y","p","t","_","x","8","6","-","6","4","_","o","2",".","b","i","n">>

\* CrossCompiler() on a host whose only compiler is gcc, then
\* compile_library('openssl', 'src', ['AES_encrypt'], 'out') with
\* src/AES_encrypt.c present
ScenarioInit ==
    /\ pc = "matrix"
    /\ config = <<>>
    /\ libIdx = 0
    /\ available_archs = CheckToolchains({"gcc"})
    /\ library_name = OPENSSL
    /\ source_dir = Dir_src
    /\ functions = <<AES_encrypt>>
    /\ output_dir = Dir_out
    /\ \E v \in 1..MaxSrcVer : trees = Put(EmptyMap, Dir_src, Put(EmptyMap, File_AES_c, v))
    /\ cellIdx = 1
    /\ results = EmptyMap /\ all_results = EmptyMap /\ pbar = 0
    /\ attempted = <<>> /\ faults = 0 /\ disk = EmptyMap /\ acquired = {}
    /\ metadata = NoFile
    /\ archives = EmptyMap /\ downloads = 0
    /\ LabelIdle /\ FileIdle /\ CallsIdle /\ AuxIdle

\* label_function(unit['binary_path'], function_info) for a unit of the
\* returned result map
LabelUnit ==
    /\ pc = "returned"
    /\ \E key \in DOMAIN results :
         /\ labelCell' = results[key]
         /\ labelPath' = results[key].binary_path
         /\ labelOut' = label_function(results[key].binary_path,
                                       [name |-> results[key].function,
                                        address |-> 0, size |-> 16])
    /\ UNCHANGED <<fileVars, buildVars, cacheVars, lmCalls, auxVars>>

ScenarioNext == CellStep \/ CompileLibraryReturn \/ LabelUnit

SpecScenario == ScenarioInit /\ [][ScenarioNext]_vars

\* the file names of the binaries of the returned units
UnitNames == {PathName(results[k].binary_path) : k \in DOMAIN results}

\* what label_function is said to yield for each unit
LabelledAES ==
    /\ \A k \in DOMAIN results :
          LET l == LabelOf(results[k].binary_path)
          IN  l.algorithm = "AES" /\ l.library = OPENSSL /\ l.is_crypto = TRUE
    /\ labelOut # NoInfo =>
          /\ labelOut.label.algorithm = "AES"
          /\ labelOut.label.library = OPENSSL
          /\ labelOut.label.is_crypto = TRUE

AllCompiled == pc = "returned" /\ faults = 0

\* C19 as stated: for openssl, x86-64 and AES_encrypt.c, compile_library
\* produces exactly two units, openssl_AES_encrypt_x86-64_o0.bin and
\* openssl_AES_encrypt_x86-64_o2.bin, each labelled AES, openssl, is_crypto
C19_TwoUnitsLabelledAES ==
    AllCompiled =>
        /\ Cardinality(DOMAIN results) = 2
        /\ UnitNames = {Bin_x86_64_o0, Bin_x86_64_o2}
        /\ LabelledAES

\* C19 amended: with gcc the only compiler (x86 and x86-64 available) and
\* the five built-in optimization levels, compile_library produces ten
\* units, one per architecture and level, the two named binaries among
\* them, and label_function gives each AES, openssl, is_crypto true
C19_TenUnitsLabelledAES ==
    /\ AllCompiled =>
          /\ Cardinality(DOMAIN results) = 10
          /\ DOMAIN results =
                {<<a, o, AES_encrypt>> : a \in {X86, X86_64},
                                         o \in Range(OPTIMIZATION_LEVELS)}
          /\ {Bin_x86_64_o0, Bin_x86_64_o2} \subseteq UnitNames
    /\ LabelledAES

C19_Witness ==
    /\ AllCompiled
    /\ labelOut # NoInfo
    /\ PathName(labelPath) = Bin_x86_64_o2
    /\ labelOut.label.algorithm = "AES"


-----------------------------------------------------------------------------
(* label_function called repeatedly on labelers with different metadata    *)

MaxLabelCalls == 2  \* label_function calls in one history

\* what json.load gives for a compilation metadata file
LoadedMetadata ==
    { NoFile,
      [written |-> TRUE, libraries |-> EmptyMap],
      [written |-> TRUE, libraries |-> Put(EmptyMap, OPENSSL, EmptyMap)] }

\* AutoLabeler(compilation_metadata), and the function dicts to label
PureInit ==
    /\ labelerMeta \in LoadedMetadata
    /\ lblCalls = <<>>
    /\ \E dicts \in SeqsOf(FunctionDicts, 1, MaxObjs) : heap = <<StaleLabel>> \o dicts
    /\ batchCall = NoCall
    /\ LabelIdle /\ FileIdle /\ BuildIdle /\ CacheIdle /\ CallsIdle
    /\ RaceIdle /\ ExtractIdle /\ DetectIdle
    /\ RegIdle /\ findCall = NoCall /\ encCall = NoCall

\* the references that hold function dicts
FunctionRefs(h) == {r \in 1..Len(h) : "name" \in DOMAIN h[r]}

\* the dict behind a reference with its label dict in place of the reference
Deref(h, r) ==
    [k \in DOMAIN h[r] |-> IF k = "label" THEN h[h[r][k].ref] ELSE h[r][k]]

\* label_function(binary_path, function_info) on the current labeler; the
\* dict may be a fresh one or one that an earlier call labelled
LabelAgain ==
    /\ Len(lblCalls) < MaxLabelCalls
    /\ \E binary_path \in {Path_aes_bin, Path_foo_bin}, r \in FunctionRefs(heap) :
         \E l \in {LabelFunctionRef(heap, binary_path, r)} :
             /\ heap' = l.heap
             /\ lblCalls' = Append(lblCalls,
                    [binary_path |-> binary_path, function_info |-> r,
                     metadata |-> labelerMeta,
                     given |-> Deref(heap, r),
                     ret |-> l.ref, returned |-> Deref(l.heap, l.ref)])
    /\ UNCHANGED <<labelVars, fileVars, buildVars, cacheVars, lmCalls,
                   callers, readelf_available, exCall, detectCall, batchCall,
                   labelerMeta, regVars, findCall, encCall>>

\* another labeler is constructed, from another metadata file
Reload ==
    /\ Len(lblCalls) < MaxLabelCalls
    /\ \E m \in LoadedMetadata \ {labelerMeta} : labelerMeta' = m
    /\ UNCHANGED <<labelVars, fileVars, buildVars, cacheVars, lmCalls,
                   callers, readelf_available, exCall, detectCall, heap,
                   batchCall, lblCalls, regVars, findCall, encCall>>

PureNext == LabelAgain \/ Reload

SpecPure == PureInit /\ [][PureNext]_vars

\* C21: two label_function calls with the same binary path and the same
\* function metadata give the same labelled record, whatever metadata the
\* labeler loaded, whatever was called before and whatever 'label' the
\* record had; labelling a labelled record again gives the same record
C21_LabelDeterministic ==
    /\ \A i, j \in 1..Len(lblCalls) :
          LET a == lblCalls[i]
              b == lblCalls[j]
          IN  (a.binary_path = b.binary_path
               /\ Unlabelled(a.given) = Unlabelled(b.given)) =>
                  a.returned = b.returned
    /\ \A i \in 1..Len(lblCalls) :
          LET a == lblCalls[i]
          IN  /\ a.returned.label = LabelOf(a.binary_path)
              /\ Unlabelled(a.returned) = Unlabelled(a.given)

C21_Witness ==
    /\ Len(lblCalls) = 2
    /\ lblCalls[1].binary_path = lblCalls[2].binary_path
    /\ lblCalls[1].function_info = lblCalls[2].function_info
    /\ lblCalls[1].metadata # lblCalls[2].metadata
    /\ "label" \in DOMAIN lblCalls[1].given
    /\ lblCalls[1].given.label # lblCalls[1].returned.label
    /\ lblCalls[2].given = lblCalls[1].returned
    /\ lblCalls[2].returned = lblCalls[1].returned

-----------------------------------------------------------------------------
(* CrossCompiler construction: the toolchain registry                      *)
(* whichPath = the compiler binaries shutil.which resolves right now,      *)
(* ctorCall = the CrossCompiler(...) call, cfAvail = self.available_archs  *)

regRest == <<labelVars, buildVars, cacheVars, lmCalls, callers,
             readelf_available, exCall, detectCall, heap, batchCall,
             pureVars, findCall, encCall>>

\* CrossCompiler.__init__ (76-88) with _check_toolchains' raise (107-108)
NewCrossCompiler(onPath) ==
    LET available == CheckToolchains(onPath)
    IN  IF available = <<>>
        THEN [raised |-> "CompilationError", available_archs |-> <<>>]
        ELSE [raised |-> "none", available_archs |-> available]

RegInit ==
    /\ whichPath \in SUBSET CompilerBinaries
    /\ ctorCall = NoCall
    /\ FileIdle
    /\ LabelIdle /\ BuildIdle /\ CacheIdle /\ CallsIdle
    /\ RaceIdle /\ ExtractIdle /\ DetectIdle /\ BatchIdle /\ PureIdle
    /\ findCall = NoCall /\ encCall = NoCall

\* compiler = CrossCompiler(output_dir)
Construct ==
    /\ ctorCall = NoCall
    /\ LET c == NewCrossCompiler(whichPath)
       IN  /\ ctorCall' = [kind |-> "CrossCompiler", onPath |-> whichPath,
                           raised |-> c.raised,
                           available_archs |-> c.available_archs]
           /\ cfAvail' = c.available_archs
    /\ UNCHANGED <<whichPath, cfCall, regRest>>

\* a toolchain is installed or removed while the object lives
PathChange ==
    /\ ctorCall # NoCall /\ ctorCall.raised = "none"
    /\ whichPath = ctorCall.onPath
    /\ \E b \in CompilerBinaries :
          whichPath' = IF b \in whichPath THEN whichPath \ {b}
                       ELSE whichPath \cup {b}
    /\ UNCHANGED <<ctorCall, cfAvail, cfCall, regRest>>

\* compiler.compile_file(...) on the constructed object
RegCompileFile ==
    /\ ctorCall # NoCall /\ ctorCall.raised = "none"
    /\ \E arch \in {X86, ARM, ARCHITECTURES[5].id},
          run \in {"zero", "timeout"} :
        LET opt == OPTIMIZATION_LEVELS[1]
            src == Dir_src \o <<"/">> \o File_AES_c
            out == OutputFile(Dir_out, OPENSSL, AES_encrypt, arch, opt)
            r   == compile_file(cfAvail, src, out, arch, opt, "gcc", <<>>, run)
        IN  cfCall' = [kind |-> "compile_file", architecture |-> arch,
                       optimization |-> opt, compiler |-> "gcc",
                       extra_flags |-> <<>>,
                       run |-> IF r.spawned = 0 THEN "none" ELSE run,
                       ret |-> r.ret, raised |-> r.raised,
                       spawned |-> r.spawned, cmd |-> r.cmd]
    /\ UNCHANGED <<whichPath, ctorCall, cfAvail, regRest>>

RegNext == Construct \/ PathChange \/ RegCompileFile

SpecRegistry == RegInit /\ [][RegNext]_vars

\* the catalog positions whose compiler binary is in onPath
ResolvedAt(onPath) ==
    {i \in 1..Len(ARCHITECTURES) : ARCHITECTURES[i].cc \in onPath}

\* avail lists exactly the catalog ids resolved in onPath, in catalog order
CatalogOrdered(avail, onPath) ==
    /\ Len(avail) = Cardinality(ResolvedAt(onPath))
    /\ \A k \in 1..Len(avail) :
          \E i \in ResolvedAt(onPath) :
              /\ avail[k] = ARCHITECTURES[i].id
              /\ Cardinality({j \in ResolvedAt(onPath) : j < i}) = k - 1

RegistryFixed(err) ==
    ctorCall # NoCall =>
        /\ ctorCall.raised \in {"none", err}
        /\ (ctorCall.raised = err) <=> (ResolvedAt(ctorCall.onPath) = {})
        /\ ctorCall.raised = "none" =>
              /\ cfAvail = ctorCall.available_archs
              /\ CatalogOrdered(cfAvail, ctorCall.onPath)

\* C22 as stated: the available set is computed once at construction as the
\* catalog ids whose compiler resolves on PATH, in catalog order; construction
\* fails with NoToolchainsError exactly if the set is empty; later
\* compile_file calls do not change the set
C22_NoToolchainsError == RegistryFixed("NoToolchainsError")

\* C22 amended: the same, the construction failing with CompilationError
\* exactly if no catalog compiler resolves
C22_RegistryFixedAtConstruction == RegistryFixed("CompilationError")

C22_Witness ==
    /\ ctorCall # NoCall /\ ctorCall.raised = "none"
    /\ Len(cfAvail) >= 2
    /\ whichPath \ ctorCall.onPath # {}
    /\ cfCall # NoCall /\ cfCall.spawned = 1

-----------------------------------------------------------------------------
(* ALGORITHM_MAP: keywords that contain other keywords                     *)

\* keyword i contains the different keyword j
Shadows(i, j) ==
    /\ i # j
    /\ Contains(ALGORITHM_MAP[i].key, ALGORITHM_MAP[j].key)

\* C23: whenever one catalog keyword is a substring of another, the longer
\* one is declared earlier, and a name containing the longer keyword is not
\* resolved to the algorithm of the shorter one ("3des" gives 3DES, not DES)
C23_NoShadowedKeyword ==
    detectCall # NoCall =>
        \A i, j \in 1..Len(ALGORITHM_MAP) :
            (Shadows(i, j) /\ i \in KeywordsIn(detectCall.function_name)) =>
                /\ i < j
                /\ detectCall.ret # ALGORITHM_MAP[j].value

-----------------------------------------------------------------------------
(* the records of extract_all: sizes and symbol rows                       *)

\* C24: every record of heuristic provenance carries an explicit
\* unknown-size marker, never the number 0; a numeric size appears only on
\* records of symbol provenance
C24_HeuristicSizeUnknown ==
    IsExtractCall =>
        \A k \in 1..Len(exCall.functions) :
            LET f == exCall.functions[k]
            IN  /\ f.source = "heuristic" => f.size \notin Nat
                /\ f.size \in Nat => f.source = "symbol"

\* the record the symbol table row should yield: a row of at least 8 fields
\* whose type field is FUNC, with a hexadecimal value and a decimal size
RowRecord(parts) ==
    IF Len(parts) < 8 THEN <<>>
    ELSE IF parts[4] # FUNC THEN <<>>
    ELSE IF ~ParseInt(parts[2], 16).ok \/ ~ParseInt(parts[3], 10).ok THEN <<>>
    ELSE << [address |-> ParseInt(parts[2], 16).val,
             size |-> ParseInt(parts[3], 10).val,
             name |-> parts[Len(parts)], source |-> "symbol"] >>

RECURSIVE RowRecords(_)
RowRecords(stdout) ==
    IF stdout = <<>> THEN <<>>
    ELSE RowRecord(Head(stdout)) \o RowRecords(Tail(stdout))

\* C25: symbol-table parsing returns a record exactly for the well-formed
\* rows whose type field is the function type, with the address read as
\* hexadecimal from the value column, the size as decimal and the name the
\* row's final token; short rows and rows with unparsable numbers are skipped
C25_SymbolRowsParsed ==
    (IsExtractCall /\ exCall.run.outcome = "zero") =>
        exCall.symbol_functions = RowRecords(exCall.run.stdout)

-----------------------------------------------------------------------------
(* compile_library: the progress counter                                   *)

\* the cells of the running compile_library whose outcome is determined
FinishedCells ==
    {i \in 1..Len(attempted) :
        attempted[i].outcome \in {"skipped", "succeeded", "failed"}}

\* the loop of compile_library has ended and the call returns
LibraryReturns == pc \in {"matrix", "returned"} /\ cellIdx > NumCells

\* C26: during compile_library the progress counter never decreases, grows
\* by exactly one per cell and only once that cell's outcome is determined,
\* never exceeds the number of finished cells, and equals the total cell
\* count when compile_library returns
C26_ProgressCounter ==
    /\ [](/\ pbar <= Cardinality(FinishedCells)
          /\ pbar <= NumCells
          /\ LibraryReturns => pbar = NumCells)
    /\ [][\/ pbar' = pbar
          \/ /\ pbar' = pbar + 1
             /\ cellIdx' = cellIdx + 1
             /\ Len(attempted') = Len(attempted) + 1
             /\ attempted'[Len(attempted')].cell = cellIdx
             /\ Len(attempted') \in FinishedCells'
          \/ /\ pc = "get_library" /\ pc' = "matrix"
             /\ pbar' = 0 /\ attempted' = <<>>]_vars

C26_Witness ==
    /\ pc = "returned"
    /\ NumCells >= 10
    /\ pbar = NumCells
    /\ \E i, j \in FinishedCells :
          /\ attempted[i].outcome = "skipped"
          /\ attempted[j].outcome = "failed"

-----------------------------------------------------------------------------
(* compile_file: the command line                                          *)

\* seq without its empty tokens
RECURSIVE NonEmptyTokens(_)
NonEmptyTokens(seq) ==
    IF seq = <<>> THEN <<>>
    ELSE IF Head(seq) = <<>> THEN NonEmptyTokens(Tail(seq))
    ELSE <<Head(seq)>> \o NonEmptyTokens(Tail(seq))

\* the call asks for clang on one of the two architectures clang serves
ClangCall == cfCall.compiler = "clang" /\ cfCall.architecture \in {X86, X86_64}

\* C27: the command of compile_file is the executable followed by the
\* optimization flag, the architecture flags, the cross-target flag, -static,
\* -fno-stack-protector, -o, the output path, the source path and the extra
\* flags, in this order, every empty token removed; the executable is clang
\* and the cross-target flag is present exactly for compiler 'clang' on x86
\* (--target=i686-linux-gnu) and x86-64 (--target=x86_64-linux-gnu), else
\* the executable is the architecture's own compiler
C27_CommandLine ==
    (IsFileCall /\ cfCall.spawned = 1) =>
        LET arch   == cfCall.architecture
            target == IF ~ClangCall THEN <<>>
                      ELSE IF arch = X86 THEN Target_i686 ELSE Target_x86_64
            tokens == << cfCall.optimization, ArchConfig(arch).cflags, target,
                         Flag_static, Flag_nostack, Flag_o,
                         OutputFile(Dir_out, OPENSSL, AES_encrypt, arch,
                                    cfCall.optimization),
                         Dir_src \o <<"/">> \o File_AES_c >>
                      \o cfCall.extra_flags
        IN  /\ cfCall.cmd.args = NonEmptyTokens(tokens)
            /\ \A k \in 1..Len(cfCall.cmd.args) : cfCall.cmd.args[k] # <<>>
            /\ cfCall.cmd.exe = IF ClangCall THEN "clang" ELSE ArchConfig(arch).cc
            /\ ClangCall <=> \E k \in 1..Len(cfCall.cmd.args) :
                                cfCall.cmd.args[k] \in {Target_i686, Target_x86_64}

C27_Witness ==
    /\ IsFileCall /\ cfCall.spawned = 1
    /\ ClangCall /\ cfCall.architecture = X86_64
    /\ cfCall.extra_flags = <<<<>>, Flag_g>>
    /\ cfCall.cmd.exe = "clang"
    /\ cfCall.cmd.args[Len(cfCall.cmd.args)] = Flag_g
    /\ Target_x86_64 \in Range(cfCall.cmd.args)

-----------------------------------------------------------------------------
(* _find_source_file called on a source tree                               *)

File_HMAC_cpp    == <<"H","M","A","C",".","c","p","p">>
File_hmac_util_c == <<"H","M","A","C","_","u","t","i","l",".","c">>
File_sub_HMAC_c  == <<"c","r","y","p","t","o","/","H","M","A","C",".","c">>
File_HMAC_dir_c  == <<"H","M","A","C","/","u","t","i","l",".","c">>

\* the files a source tree can hold, by their path under source_dir
FindFiles ==
    {File_HMAC_c, File_HMAC_cpp, File_hmac_util_c, File_my_HMAC,
     File_sub_HMAC_c, File_HMAC_dir_c, File_AES_c}

FindInit ==
    /\ trees \in {EmptyMap} \cup
                 { Put(EmptyMap, Dir_src, [f \in fs |-> 1]) : fs \in SUBSET FindFiles }
    /\ archives = EmptyMap /\ downloads = 0
    /\ findCall = NoCall
    /\ LabelIdle /\ FileIdle /\ BuildIdle /\ CallsIdle
    /\ RaceIdle /\ ExtractIdle /\ DetectIdle /\ BatchIdle /\ PureIdle /\ RegIdle
    /\ encCall = NoCall

\* self._find_source_file(source_dir, function_name)
FindSourceFileCall ==
    /\ findCall = NoCall
    /\ \E function_name \in {HMAC, AES_encrypt} :
         \E ret \in FindSourceFile(FilesUnder(Dir_src), Dir_src, function_name) :
            findCall' = [kind |-> "_find_source_file",
                         function_name |-> function_name, ret |-> ret]
    /\ UNCHANGED <<labelVars, fileVars, buildVars, cacheVars, lmCalls, callers,
                   readelf_available, exCall, detectCall, heap, batchCall,
                   pureVars, regVars, encCall>>

FindNext == FindSourceFileCall

SpecFind == FindInit /\ [][FindNext]_vars

\* the file name base is <anything><name><anything><ext>
Wildcard(base, name, ext) ==
    \E i \in 0..Len(base) :
        /\ i + Len(name) + Len(ext) <= Len(base)
        /\ SubSeq(base, i + 1, i + Len(name)) = name
        /\ SubSeq(base, Len(base) - Len(ext) + 1, Len(base)) = ext

\* the file f of the tree matches the pattern of rank k for the name
MatchesRank(f, name, k) ==
    LET base == PathName(f)
    IN  CASE k = 1 -> base = name \o Ext_c
          [] k = 2 -> base = name \o Ext_cpp
          [] k = 3 -> Wildcard(base, name, Ext_c)
          [] k = 4 -> Wildcard(base, name, Ext_cpp)

\* C28: source-file resolution applies the four patterns in strict
\* precedence, <name>.c, <name>.cpp, *<name>*.c, *<name>*.cpp: it returns
\* None exactly if no file matches any pattern, and otherwise a path that
\* matches the highest-precedence pattern that has a match
C28_PatternPrecedence ==
    findCall # NoCall =>
        LET files == FilesUnder(Dir_src)
            name  == findCall.function_name
            Has(k) == \E f \in files : MatchesRank(f, name, k)
        IN  /\ findCall.ret = NoSource <=> \A k \in 1..4 : ~Has(k)
            /\ findCall.ret # NoSource =>
                  \E f \in files, k \in 1..4 :
                      /\ findCall.ret = Dir_src \o <<"/">> \o f
                      /\ MatchesRank(f, name, k)
                      /\ \A j \in 1..(k - 1) : ~Has(j)

C28_Witness ==
    /\ findCall # NoCall
    /\ findCall.function_name = HMAC
    /\ {File_HMAC_cpp, File_hmac_util_c, File_my_HMAC} \subseteq FilesUnder(Dir_src)
    /\ \A f \in FilesUnder(Dir_src) : ~MatchesRank(f, HMAC, 1)
    /\ findCall.ret = Dir_src \o <<"/">> \o File_HMAC_cpp

-----------------------------------------------------------------------------
(* the names compile_library and _save_metadata derive from a cell         *)

\* function names with underscores, some spelling an architecture or a level
Func_f == <<"f">>
Func_f_x86 == <<"f","_","x","8","6">>
Func_x86_f == <<"x","8","6","_","f">>
Func_f_o0 == <<"f","_","o","0">>
Func_o0_f == <<"o","0","_","f">>
Func_f_arm_o0 == <<"f","_","a","r","m","_","o","0">>
Func_arm_o0_f == <<"a","r","m","_","o","0","_","f">>
Func_x86_o0 == <<"x","8","6","_","o","0">>

EncodeNames == {Func_f, Func_f_x86, Func_x86_f, Func_f_o0, Func_o0_f, Func_f_arm_o0, Func_arm_o0_f, Func_x86_o0}

\* the cells (arch, opt, func_name) of compile_library's three loops
EncodeCells ==
    [arch : Range(ArchIds), opt : Range(OPTIMIZATION_LEVELS), func : EncodeNames]

EncodeInit ==
    /\ encCall = NoCall
    /\ LabelIdle /\ FileIdle /\ BuildIdle /\ CacheIdle /\ CallsIdle
    /\ RaceIdle /\ ExtractIdle /\ DetectIdle /\ BatchIdle /\ PureIdle /\ RegIdle
    /\ findCall = NoCall

\* two cells of one compile_library run: the output file of each (line
\* 239-243) and the key _save_metadata writes for each (line 435)
EncodeCellPair ==
    /\ encCall = NoCall
    /\ \E a \in EncodeCells, b \in EncodeCells :
         encCall' = [kind |-> "cells", a |-> a, b |-> b,
                     path_a |-> OutputFile(Dir_out, OPENSSL, a.func, a.arch, a.opt),
                     path_b |-> OutputFile(Dir_out, OPENSSL, b.func, b.arch, b.opt),
                     key_a |-> KeyStr(KeyOf(a)),
                     key_b |-> KeyStr(KeyOf(b))]
    /\ UNCHANGED <<labelVars, fileVars, buildVars, cacheVars, lmCalls, callers,
                   readelf_available, exCall, detectCall, heap, batchCall,
                   pureVars, regVars, findCall>>

EncodeNext == EncodeCellPair

SpecEncode == EncodeInit /\ [][EncodeNext]_vars

\* C29: within one compile_library run distinct cells (arch, opt, function)
\* get distinct output paths, and within one library distinct cells get
\* distinct metadata keys, also for function names containing underscores
C29_CellNamesInjective ==
    (encCall # NoCall /\ encCall.a # encCall.b) =>
        /\ encCall.path_a # encCall.path_b
        /\ encCall.key_a # encCall.key_b

C29_Witness ==
    /\ encCall # NoCall
    /\ encCall.a = [arch |-> X86, opt |-> OPTIMIZATION_LEVELS[1], func |-> Func_f_arm_o0]
    /\ encCall.b = [arch |-> ARM, opt |-> OPTIMIZATION_LEVELS[1], func |-> Func_f]
    /\ encCall.path_a # encCall.path_b
    /\ encCall.key_a # encCall.key_b

-----------------------------------------------------------------------------
(* the heuristic scan: one record per prologue                             *)

LowerHexDigits ==
    <<"0","1","2","3","4","5","6","7","8","9","a","b","c","d","e","f">>

\* n written in hexadecimal with lower-case digits
RECURSIVE LowerHex(_)
LowerHex(n) ==
    IF n < 16 THEN <<LowerHexDigits[n + 1]>>
    ELSE LowerHex(n \div 16) \o <<LowerHexDigits[(n % 16) + 1]>>

\* the offsets (from 0) at which the bytes 55 89 e5 occur in data
PrologueOffsets(data) ==
    {o \in 0..(Len(data) - 3) :
        data[o + 1] = 85 /\ data[o + 2] = 137 /\ data[o + 3] = 229}

\* the call scanned a readable file
ScannedFile ==
    IsExtractCall /\ exCall.scanned /\ exCall.read.outcome = "ok"

\* C30: the heuristic scan ends on every finite binary with exactly one
\* record per offset at which 55 89 e5 occurs, none missed, none twice, none
\* spurious, in strictly ascending order of offset, each of provenance
\* 'heuristic' and named 'sub_' followed by the offset in lower-case hex
C30_OneRecordPerPrologue ==
    ScannedFile =>
        LET fns == exCall.functions
            occ == PrologueOffsets(exCall.read.data)
        IN  /\ Len(fns) = Cardinality(occ)
            /\ {fns[k].address : k \in 1..Len(fns)} = occ
            /\ \A k \in 1..(Len(fns) - 1) : fns[k].address < fns[k + 1].address
            /\ \A k \in 1..Len(fns) :
                  /\ fns[k].source = "heuristic"
                  /\ fns[k].name = <<"s","u","b","_">> \o LowerHex(fns[k].address)

C30_Witness ==
    /\ ScannedFile
    /\ PrologueOffsets(exCall.read.data) = {10, 26}
    /\ Len(exCall.functions) = 2
    /\ exCall.functions[1].name = <<"s","u","b","_","a">>
    /\ exCall.functions[2].name = <<"s","u","b","_","1","a">>
=============================================================================
